---- MODULE Spec2Model ----
(***************************************************************************)
(* A model of the deno-libclang binding layer: the process-wide library    *)
(* handle and symbol table (src/src/libclang/library.ts), the parse entry  *)
(* point (src/src/libclang/translation_unit.ts) and the tree traversal     *)
(* bridge (visitChildren and its trampoline, with the armed-visitor slot   *)
(* of src/src/ffi/state.ts).                                               *)
(*                                                                         *)
(* Strings that the code builds by concatenation are modelled as tuples of *)
(* their parts, so that "the message carries the path" is a membership     *)
(* test.  A null handle, pointer or table is the number 0; the k-th handle *)
(* a native call hands out is the number k.                                *)
(***************************************************************************)
EXTENDS Integers, Sequences, FiniteSets, TLC

VARIABLES
    libclang,                \* library.ts:139  the dlopen handle, 0 = null
    symbols,                 \* library.ts:140  the symbol table, 0 = null
    nativeLog,               \* history: every native open and close, in order
    lastCall,                \* history: the last API call, its inputs and its outcome
    currentVisitor,          \* state.ts:10
    collectedCursorBuffers,  \* state.ts:11
    currentCallback,         \* cursor.ts:152  the live UnsafeCallback, 0 = null
    closedCallbacks,         \* the UnsafeCallback objects that were close()d
    callbacksMade,           \* how many UnsafeCallback objects were created
    stack,                   \* the active visitChildren calls, outermost first
    lastVisit,               \* history: the last trampoline invocation
    lastReturn,              \* history: the last visitChildren call that returned
    crashed,                 \* the process died in native code
    reparseLog,              \* history: the reparse calls made so far, in order
    diagRun,                 \* the getDiagnostics or string accessor call in progress
    openDiagnostics,         \* the native diagnostic handles fetched and not disposed
    openStrings,             \* the native string handles obtained and not disposed
    lastCodec,               \* history: the last struct conversion, input and output
    arrays,                  \* the Uint8Array[] objects created so far, by identity
    collectedArray,          \* state.ts:11  which array collectedCursorBuffers refers to
    returnedArrays,          \* history: the array each returned visitChildren call gave back
    loadedPath               \* history: the path the open library was opened from

libVars == <<libclang, symbols, nativeLog, lastCall, loadedPath>>
bridgeVars == <<currentVisitor, collectedCursorBuffers, currentCallback,
                closedCallbacks, callbacksMade, stack, lastVisit, lastReturn,
                crashed, arrays, collectedArray, returnedArrays>>
tuVars == <<reparseLog>>
diagVars == <<diagRun, openDiagnostics, openStrings>>
codecVars == <<lastCodec>>
vars == <<libclang, symbols, nativeLog, lastCall, currentVisitor,
          collectedCursorBuffers, currentCallback, closedCallbacks,
          callbacksMade, stack, lastVisit, lastReturn, crashed, reparseLog,
          diagRun, openDiagnostics, openStrings, lastCodec, arrays,
          collectedArray, returnedArrays, loadedPath>>

\* ------------------------------------------------------------------ bounds

\* The longest native history the library specification explores.
MaxLog == 4
\* How deep visitChildren calls may nest (1 = no nesting).
MaxDepth == 2
\* How many visitChildren calls one behaviour makes.
MaxCalls == 3
\* How many reparseTranslationUnit calls one behaviour makes.
MaxReparses == 2
\* How many getDiagnostics and string accessor calls one behaviour makes.
MaxStringCalls == 2

\* ------------------------------------------------------------- library.ts

UNDEFINED == "undefined"
NONE == "none"

\* The values load() is called with: no argument, the empty string, a path
\* that can be opened and the path of the repository's load-failure test.
LibPaths == {UNDEFINED, "", "/usr/lib/llvm-20/lib/libclang.so",
             "/nonexistent/path/libclang.so"}

\* What findLocalLibclang() can answer: no installation, or the path of one.
LocatorAnswers == {"", "/usr/lib/libclang.so"}

\* What Deno.dlopen can do: return a handle, throw an Error, or throw a value
\* that is not an Error.
DlopenOutcomes ==
    {[ok |-> TRUE, isError |-> FALSE, message |-> "", value |-> ""],
     [ok |-> FALSE, isError |-> TRUE,
      message |-> "Could not open library: cannot open shared object file",
      value |-> ""],
     [ok |-> FALSE, isError |-> FALSE, message |-> "", value |-> "ENOENT"]}

NotFoundMessage == <<"libclang not found. Please install it via your system's package manager (e.g., apt install libclang-dev, brew install llvm)">>
NotLoadedMessage == <<"libclang not loaded. Call load() first.">>

NoError == <<>>

\* libPath || ...: undefined and the empty string are falsy.
Truthy(s) == s # UNDEFINED /\ s # ""

\* getLibclang(): the located path, or a throw when nothing was found.
getLibclang(located) ==
    IF located = ""
    THEN [threw |-> TRUE, path |-> "", error |-> NotFoundMessage]
    ELSE [threw |-> FALSE, path |-> located, error |-> NoError]

\* e instanceof Error ? e : new Error(String(e)), then .message
originalErrorMessage(e) == IF e.isError THEN e.message ELSE e.value

\* One native event: the symbol that was called (or dlopen / close), the
\* library handle or table it went through, whether it succeeded, and the
\* arguments it was given.
Ev(ev, handle, ok, args) == [ev |-> ev, handle |-> handle, ok |-> ok, args |-> args]

\* The outcome of a call of this layer: the new library state, what was thrown,
\* and the native events the call caused.
Outcome(lib, sym, threw, error, events) ==
    [libclang |-> lib, symbols |-> sym, threw |-> threw, error |-> error,
     events |-> events]

loadLibclang_unwrapped(lib, sym, libPath, located, dl, fresh) ==
    IF lib # 0 THEN Outcome(lib, sym, FALSE, NoError, <<>>)
    ELSE LET loc == getLibclang(located)
             actualPath == IF Truthy(libPath) THEN libPath ELSE loc.path
         IN  IF ~Truthy(libPath) /\ loc.threw
             THEN Outcome(lib, sym, TRUE, loc.error, <<>>)
             ELSE IF dl.ok
             THEN Outcome(fresh, fresh, FALSE, NoError,
                          <<Ev("dlopen", fresh, TRUE, <<actualPath>>)>>)
             ELSE Outcome(lib, sym, TRUE, <<originalErrorMessage(dl)>>,
                          <<Ev("dlopen", 0, FALSE, <<actualPath>>)>>)

\* loadLibclang(libPath); fresh is the handle dlopen returns when it succeeds.
loadLibclang(lib, sym, libPath, located, dl, fresh) ==
    IF lib # 0 THEN Outcome(lib, sym, FALSE, NoError, <<>>)
    ELSE LET loc == getLibclang(located)
             actualPath == IF Truthy(libPath) THEN libPath ELSE loc.path
         IN  IF ~Truthy(libPath) /\ loc.threw
             THEN Outcome(lib, sym, TRUE, loc.error, <<>>)
             ELSE IF dl.ok
             THEN Outcome(fresh, fresh, FALSE, NoError,
                          <<Ev("dlopen", fresh, TRUE, <<actualPath>>)>>)
             ELSE Outcome(lib, sym, TRUE,
                          <<"Failed to load libclang from ", actualPath, ": ",
                            originalErrorMessage(dl)>>,
                          <<Ev("dlopen", 0, FALSE, <<actualPath>>)>>)

load_reopen(lib, sym, libPath, located, dl, fresh) ==
    loadLibclang(0, 0, libPath, located, dl, fresh)

\* load(libPath)
load(lib, sym, libPath, located, dl, fresh) ==
    IF sym # 0 THEN Outcome(lib, sym, FALSE, NoError, <<>>)
    ELSE loadLibclang(lib, sym, libPath, located, dl, fresh)

unload_noGuard(lib, sym) ==
    Outcome(0, 0, FALSE, NoError,
            <<Ev("close", lib, TRUE, <<>>)>>)

unload_keepSymbols(lib, sym) ==
    IF lib # 0
    THEN Outcome(0, sym, FALSE, NoError,
                 <<Ev("close", lib, TRUE, <<>>)>>)
    ELSE Outcome(lib, sym, FALSE, NoError, <<>>)

\* unload()
unload(lib, sym) ==
    IF lib # 0
    THEN Outcome(0, 0, FALSE, NoError,
                 <<Ev("close", lib, TRUE, <<>>)>>)
    ELSE Outcome(lib, sym, FALSE, NoError, <<>>)

getSymbols_noCheck(sym) == [threw |-> FALSE, error |-> NoError, sym |-> sym]

\* getSymbols(): the table, or the not-loaded error.
getSymbols(sym) ==
    IF sym = 0
    THEN [threw |-> TRUE, error |-> NotLoadedMessage, sym |-> 0]
    ELSE [threw |-> FALSE, error |-> NoError, sym |-> sym]

\* The native opens and closes among the events of one call, as nativeLog
\* keeps them (without their arguments).
IsLibraryEvent(e) == e.ev \in {"dlopen", "close"}
LibraryEvents(events) ==
    LET sel == SelectSeq(events, IsLibraryEvent)
    IN  [i \in 1..Len(sel) |-> [ev |-> sel[i].ev, handle |-> sel[i].handle, ok |-> sel[i].ok]]

\* The number of successful native opens so far.
Opens(log) == Cardinality({i \in 1..Len(log) : log[i].ev = "dlopen" /\ log[i].ok})

Call(op, arg, pre, out, result) ==
    [op |-> op, arg |-> arg, preLib |-> pre[1], preSym |-> pre[2],
     threw |-> out.threw, error |-> out.error,
     events |-> out.events, result |-> result]

NoCall ==
    [op |-> NONE, arg |-> <<>>, preLib |-> 0, preSym |-> 0, threw |-> FALSE,
     error |-> NoError, events |-> <<>>, result |-> <<>>]

\* The path the open library was opened from, after the native events of a
\* load or unload call: a successful open binds its path, a close binds none.
PathAfter(path, events) ==
    IF events = <<>> \/ ~events[1].ok THEN path
    ELSE IF events[1].ev = "dlopen" THEN events[1].args[1]
    ELSE NONE

\* load(libPath) as the program runs it.
Load(libPath, located, dl) ==
    /\ Len(nativeLog) < MaxLog
    /\ LET out == load(libclang, symbols, libPath, located, dl, Opens(nativeLog) + 1)
       IN  /\ libclang' = out.libclang
           /\ symbols' = out.symbols
           /\ nativeLog' = nativeLog \o LibraryEvents(out.events)
           /\ lastCall' = Call("load", <<libPath, located, dl>>,
                               <<libclang, symbols>>, out, <<>>)
           /\ loadedPath' = PathAfter(loadedPath, out.events)
    /\ UNCHANGED bridgeVars
    /\ UNCHANGED <<tuVars, diagVars, codecVars>>

\* unload() as the program runs it.
Unload ==
    /\ Len(nativeLog) < MaxLog
    /\ LET out == unload(libclang, symbols)
       IN  /\ libclang' = out.libclang
           /\ symbols' = out.symbols
           /\ nativeLog' = nativeLog \o LibraryEvents(out.events)
           /\ lastCall' = Call("unload", <<>>, <<libclang, symbols>>, out, <<TRUE>>)
           /\ loadedPath' = PathAfter(loadedPath, out.events)
    /\ UNCHANGED bridgeVars
    /\ UNCHANGED <<tuVars, diagVars, codecVars>>

\* createIndex(excludeDeclarationsFromPCH, displayDiagnostics): an accessor
\* that obtains the symbol table and makes one native call.
CreateIndex(excl, disp) ==
    /\ LET got == getSymbols(symbols)
           flags == <<IF excl THEN 1 ELSE 0, IF disp THEN 1 ELSE 0>>
           events == IF got.threw THEN <<>>
                     ELSE <<Ev("clang_createIndex", got.sym, TRUE, flags)>>
           out == Outcome(libclang, symbols, got.threw, got.error, events)
       IN  /\ lastCall' = Call("createIndex", flags, <<libclang, symbols>>, out, <<>>)
    /\ UNCHANGED <<libclang, symbols, nativeLog, loadedPath>>
    /\ UNCHANGED bridgeVars
    /\ UNCHANGED <<tuVars, diagVars, codecVars>>

\* ---------------------------------------------------- translation_unit.ts

\* JavaScript values a caller can pass as the source path: strings (the empty
\* one included), a number and undefined.  text is what `value + ""` yields.
SourceFiles ==
    {[type |-> "string", text |-> "point.c"],
     [type |-> "string", text |-> ""],
     [type |-> "number", text |-> "42"],
     [type |-> "undefined", text |-> "undefined"]}

\* The index values a caller can pass: null (0) or the index createIndex made.
Indexes == {0, 1}

ArgLists == {<<>>, <<"-std=c11">>}
UnsavedLists == {<<>>, <<[filename |-> "point.c", contents |-> "int x;", length |-> 6]>>}

\* new TextEncoder().encode(sourceFile + "\0")
EncodeCString(v) == <<v.text, "\\0">>

\* Deno.UnsafePointer.of(buffer): the address of that buffer.
PointerOf(buffer) == <<"ptr", buffer>>
NullPointer == <<"ptr", <<>>>>

\* argsToNativePointer(args)
argsToNativePointer(args) == [ptr |-> NullPointer, keepAlive |-> <<>>]

\* unsavedFilesToNativePointer(unsavedFiles)
unsavedFilesToNativePointer(unsavedFiles) == [ptr |-> NullPointer, keepAlive |-> <<>>]

CXTranslationUnit_Flags_None == 0

\* What clang_parseTranslationUnit can return: null, or (with an index) a
\* translation unit handle.
NativeParseResults(index) == IF index = 0 THEN {0} ELSE {0, 1}

ParseFailedMessage == <<"Failed to parse translation unit">>

\* The ParseResult object; error = <<>> and hasKeepAlive = FALSE stand for
\* properties the object does not have.
ParseResult(tu, error) ==
    [translationUnit |-> tu, error |-> error, hasKeepAlive |-> FALSE,
     keepAlive |-> <<>>]

\* A native event together with the value the native call returned.
EvRet(ev, handle, ok, args, ret) ==
    [ev |-> ev, handle |-> handle, ok |-> ok, args |-> args, ret |-> ret]

parseTranslationUnit_throwOnNull(sym, index, sourceFile, args, unsavedFiles, native) ==
    LET got == getSymbols(sym)
        sourceFileBuffer == EncodeCString(sourceFile)
        sourceFilePtr == PointerOf(sourceFileBuffer)
        argsResult == argsToNativePointer(args)
        unsavedFilesResult == unsavedFilesToNativePointer(unsavedFiles)
        unsavedPtr == IF Len(unsavedFiles) > 0 THEN unsavedFilesResult.ptr
                      ELSE NullPointer
        argsPtr == IF Len(args) > 0 THEN argsResult.ptr ELSE NullPointer
        call == EvRet("clang_parseTranslationUnit", got.sym, TRUE,
                      <<index, sourceFilePtr, argsPtr, Len(args), unsavedPtr,
                        Len(unsavedFiles), CXTranslationUnit_Flags_None>>,
                      native)
    IN  IF got.threw
        THEN [threw |-> TRUE, error |-> got.error, events |-> <<>>,
              result |-> <<>>]
        ELSE IF native = 0
        THEN [threw |-> TRUE, error |-> ParseFailedMessage, events |-> <<call>>,
              result |-> <<>>]
        ELSE [threw |-> FALSE, error |-> NoError, events |-> <<call>>,
              result |-> ParseResult(native, NoError)]

\* parseTranslationUnit(index, sourceFile, args, unsavedFiles); native is what
\* the native parse returns if it is called.
parseTranslationUnit(sym, index, sourceFile, args, unsavedFiles, native) ==
    LET got == getSymbols(sym)
        sourceFileBuffer == EncodeCString(sourceFile)
        sourceFilePtr == PointerOf(sourceFileBuffer)
        argsResult == argsToNativePointer(args)
        unsavedFilesResult == unsavedFilesToNativePointer(unsavedFiles)
        unsavedPtr == IF Len(unsavedFiles) > 0 THEN unsavedFilesResult.ptr
                      ELSE NullPointer
        argsPtr == IF Len(args) > 0 THEN argsResult.ptr ELSE NullPointer
        call == EvRet("clang_parseTranslationUnit", got.sym, TRUE,
                      <<index, sourceFilePtr, argsPtr, Len(args), unsavedPtr,
                        Len(unsavedFiles), CXTranslationUnit_Flags_None>>,
                      native)
    IN  IF got.threw
        THEN [threw |-> TRUE, error |-> got.error, events |-> <<>>,
              result |-> <<>>]
        ELSE [threw |-> FALSE, error |-> NoError, events |-> <<call>>,
              result |-> IF native = 0
                         THEN ParseResult(0, ParseFailedMessage)
                         ELSE ParseResult(native, NoError)]

\* parseTranslationUnit as the program runs it.
ParseTranslationUnit(index, sourceFile, args, unsavedFiles) ==
    /\ \E native \in NativeParseResults(index) :
         LET out == parseTranslationUnit(symbols, index, sourceFile, args,
                                         unsavedFiles, native)
         IN  /\ lastCall' = [op |-> "parseTranslationUnit",
                             arg |-> <<index, sourceFile, args, unsavedFiles>>,
                             preLib |-> libclang, preSym |-> symbols,
                             threw |-> out.threw, error |-> out.error,
                             events |-> out.events, result |-> out.result]
    /\ UNCHANGED <<libclang, symbols, nativeLog, loadedPath>>
    /\ UNCHANGED bridgeVars
    /\ UNCHANGED <<tuVars, diagVars, codecVars>>

\* The translation unit handles a caller can hold.
Units == {1, 2}

\* What clang_reparseTranslationUnit can return: CXError_Success, or a
\* CXErrorCode of a failure (Failure, InvalidArguments).
ReparseStatuses == {0, 1, 3}

reparseTranslationUnit_retry(sym, unit, unsavedFiles, native) ==
    LET got == getSymbols(sym)
        unsavedFilesResult == unsavedFilesToNativePointer(unsavedFiles)
        unsavedPtr == IF Len(unsavedFiles) > 0 THEN unsavedFilesResult.ptr
                      ELSE NullPointer
        call == EvRet("clang_reparseTranslationUnit", got.sym, TRUE,
                      <<unit, Len(unsavedFiles), unsavedPtr,
                        CXTranslationUnit_Flags_None>>, native)
    IN  IF got.threw
        THEN [threw |-> TRUE, error |-> got.error, events |-> <<>>,
              result |-> <<>>]
        ELSE [threw |-> FALSE, error |-> NoError,
              events |-> IF native = 0 THEN <<call>> ELSE <<call, call>>,
              result |-> native]

\* reparseTranslationUnit(unit, unsavedFiles); native is the status the native
\* reparse returns if it is called.
reparseTranslationUnit(sym, unit, unsavedFiles, native) ==
    LET got == getSymbols(sym)
        unsavedFilesResult == unsavedFilesToNativePointer(unsavedFiles)
        unsavedPtr == IF Len(unsavedFiles) > 0 THEN unsavedFilesResult.ptr
                      ELSE NullPointer
        call == EvRet("clang_reparseTranslationUnit", got.sym, TRUE,
                      <<unit, Len(unsavedFiles), unsavedPtr,
                        CXTranslationUnit_Flags_None>>, native)
    IN  IF got.threw
        THEN [threw |-> TRUE, error |-> got.error, events |-> <<>>,
              result |-> <<>>]
        ELSE [threw |-> FALSE, error |-> NoError, events |-> <<call>>,
              result |-> native]

\* The native reparse calls among the events of one call, each as the handle
\* it was made on and the status it returned.
NativeReparses(events) ==
    [i \in 1..Len(events) |-> [unit |-> events[i].args[1], ret |-> events[i].ret]]

\* reparseTranslationUnit as the program runs it.
ReparseTranslationUnit(unit, unsavedFiles) ==
    /\ Len(reparseLog) < MaxReparses
    /\ \E native \in ReparseStatuses :
         LET out == reparseTranslationUnit(symbols, unit, unsavedFiles, native)
         IN  /\ lastCall' = [op |-> "reparseTranslationUnit",
                             arg |-> <<unit, unsavedFiles>>,
                             preLib |-> libclang, preSym |-> symbols,
                             threw |-> out.threw, error |-> out.error,
                             events |-> out.events, result |-> out.result]
             /\ reparseLog' = Append(reparseLog,
                                     [unit |-> unit, threw |-> out.threw,
                                      calls |-> NativeReparses(out.events),
                                      result |-> out.result])
    /\ UNCHANGED <<libclang, symbols, nativeLog, loadedPath>>
    /\ UNCHANGED bridgeVars
    /\ UNCHANGED <<diagVars, codecVars>>

\* ------------------------------------- diagnostics.ts, cxStringToString

NULL == "null"

\* The translation units getDiagnostics is called on, and the diagnostics the
\* native library holds for each: the severity and the C string of the
\* spelling, NULL when clang_getCString returns a null pointer.
DiagnosedUnits == {1, 2, 3}
DiagnosticsOf(unit) ==
    CASE unit = 1 -> <<[severity |-> 2, spelling |-> "unused variable"],
                       [severity |-> 3, spelling |-> "expected expression"]>>
      [] unit = 2 -> <<[severity |-> 3, spelling |-> NULL]>>
      [] OTHER -> <<>>

\* The C strings clang_getTypeSpelling can hand back for a type.
TypeSpellings == {"int", NULL}

NoHandle == <<>>
DefaultLocation == [file |-> NULL, line |-> 0, column |-> 0, offset |-> 0]

\* A call of this section: op and arg are the function and its argument, pc
\* the next statement, outcome how the call ended; obtained holds the native
\* handles the call got, made counts the handles the library has handed out,
\* trace lists what was done with the string handles, in order.
NoRun ==
    [op |-> NONE, arg |-> 0, pc |-> "idle", outcome |-> NONE, threwAt |-> NONE,
     n |-> 0, i |-> 0, diagnostic |-> NoHandle, severity |-> 0,
     cxString |-> NoHandle, cStr |-> NULL, message |-> "", diagnostics |-> <<>>,
     obtained |-> {}, result |-> <<>>, calls |-> 0, made |-> 0,
     trace |-> <<>>]

NoStringCalls ==
    /\ diagRun = NoRun
    /\ openDiagnostics = {}
    /\ openStrings = {}

\* getNumDiagnostics(unit): what clang_getNumDiagnostics returns.
getNumDiagnostics(unit) == Len(DiagnosticsOf(unit))

LoopPc_stopEarly(i, n) == IF i < n - 1 THEN "getDiagnostic" ELSE "return"
\* for (let i = 0; i < numDiagnostics; i++): the loop test.
LoopPc(i, n) == IF i < n THEN "getDiagnostic" ELSE "return"

disposeDiagnostic_skip(open, diagnostic) == open

\* disposeDiagnostic(diagnostic): clang_disposeDiagnostic releases the handle.
disposeDiagnostic(open, diagnostic) == open \ {diagnostic}

\* sym.clang_disposeString(cxString) releases the string handle.
disposeString(open, cxString) == open \ {cxString}

\* cStr === null ? "" : Deno.UnsafePointerView.getCString(cStr)
DecodeCString(cStr) == IF cStr = NULL THEN "" ELSE cStr

\* What evaluating that expression can do: for a null pointer it yields "";
\* otherwise Deno.UnsafePointerView.getCString returns the string, or throws
\* when it cannot make one (the bytes exceed the engine's string length limit).
GetCStringOutcomes(cStr) ==
    IF cStr = NULL THEN {"string"} ELSE {"string", "throw"}

\* One step on a string handle: its characters were copied into a host string
\* (value), or it was released.
StringStep(step, cxString, value) ==
    [step |-> step, cxString |-> cxString, value |-> value]

\* A call begins: the record of the previous call is dropped, the counters
\* stay.
Begin(op, arg) ==
    [NoRun EXCEPT !.op = op, !.arg = arg, !.outcome = "running",
                  !.calls = diagRun.calls + 1, !.made = diagRun.made]
Threw(run, at) == [run EXCEPT !.outcome = "threw", !.threwAt = at, !.pc = "idle"]

\* getDiagnostics(unit) up to the loop: getNumDiagnostics(unit).
GetDiagnosticsCall(unit) ==
    /\ diagRun.pc = "idle"
    /\ diagRun.calls < MaxStringCalls
    /\ LET got == getSymbols(symbols)
           numDiagnostics == getNumDiagnostics(unit)
       IN  diagRun' =
             IF got.threw THEN Threw(Begin("getDiagnostics", unit), "getSymbols")
             ELSE [Begin("getDiagnostics", unit) EXCEPT
                      !.n = numDiagnostics, !.pc = LoopPc(0, numDiagnostics)]
    /\ UNCHANGED <<openDiagnostics, openStrings>>
    /\ UNCHANGED <<libVars, bridgeVars, tuVars, codecVars>>

\* const diagnostic = getDiagnostic(unit, i)
GetDiagnostic ==
    /\ diagRun.pc = "getDiagnostic"
    /\ LET diagnostic == <<"CXDiagnostic", diagRun.made + 1>>
       IN  /\ diagRun' = [diagRun EXCEPT !.diagnostic = diagnostic,
                                         !.made = @ + 1,
                                         !.obtained = @ \cup {diagnostic},
                                         !.pc = "getDiagnosticSeverity"]
           /\ openDiagnostics' = openDiagnostics \cup {diagnostic}
    /\ UNCHANGED openStrings
    /\ UNCHANGED <<libVars, bridgeVars, tuVars, codecVars>>

\* const severity = getDiagnosticSeverity(diagnostic)
GetDiagnosticSeverity ==
    /\ diagRun.pc = "getDiagnosticSeverity"
    /\ diagRun' = [diagRun EXCEPT
                     !.severity = DiagnosticsOf(diagRun.arg)[diagRun.i + 1].severity,
                     !.pc = "getDiagnosticSpelling"]
    /\ UNCHANGED <<openDiagnostics, openStrings>>
    /\ UNCHANGED <<libVars, bridgeVars, tuVars, codecVars>>

\* getDiagnosticSpelling(diagnostic), first statement:
\* const cxString = sym.clang_getDiagnosticSpelling(diagnostic)
GetDiagnosticSpelling ==
    /\ diagRun.pc = "getDiagnosticSpelling"
    /\ LET cxString == <<"CXString", diagRun.made + 1>>
       IN  /\ diagRun' = [diagRun EXCEPT
                            !.cxString = cxString,
                            !.cStr = DiagnosticsOf(diagRun.arg)[diagRun.i + 1].spelling,
                            !.made = @ + 1,
                            !.obtained = @ \cup {cxString},
                            !.pc = "getCString"]
           /\ openStrings' = openStrings \cup {cxString}
    /\ UNCHANGED openDiagnostics
    /\ UNCHANGED <<libVars, bridgeVars, tuVars, codecVars>>

\* getTypeSpelling(type) up to its call of cxStringToString:
\* const cxString = sym.clang_getTypeSpelling(typeBuffer)
GetTypeSpellingCall(spelling) ==
    /\ diagRun.pc = "idle"
    /\ diagRun.calls < MaxStringCalls
    /\ LET got == getSymbols(symbols)
           cxString == <<"CXString", diagRun.made + 1>>
       IN  IF got.threw
           THEN /\ diagRun' = Threw(Begin("getTypeSpelling", spelling), "getSymbols")
                /\ UNCHANGED openStrings
           ELSE /\ diagRun' = [Begin("getTypeSpelling", spelling) EXCEPT
                                 !.cxString = cxString, !.cStr = spelling,
                                 !.made = @ + 1, !.obtained = {cxString},
                                 !.pc = "getCString"]
                /\ openStrings' = openStrings \cup {cxString}
    /\ UNCHANGED openDiagnostics
    /\ UNCHANGED <<libVars, bridgeVars, tuVars, codecVars>>

\* const cStr = sym.clang_getCString(cxString);
\* const result = cStr === null ? "" : Deno.UnsafePointerView.getCString(cStr)
GetCString ==
    /\ diagRun.pc = "getCString"
    /\ \E o \in GetCStringOutcomes(diagRun.cStr) :
         diagRun' = IF o = "throw" THEN Threw(diagRun, "getCString")
                    ELSE [diagRun EXCEPT
                            !.message = DecodeCString(diagRun.cStr),
                            !.trace = Append(@, StringStep("copy", diagRun.cxString,
                                                DecodeCString(diagRun.cStr))),
                            !.pc = "disposeString"]
    /\ UNCHANGED <<openDiagnostics, openStrings>>
    /\ UNCHANGED <<libVars, bridgeVars, tuVars, codecVars>>

\* sym.clang_disposeString(cxString); return result
DisposeString ==
    /\ diagRun.pc = "disposeString"
    /\ openStrings' = disposeString(openStrings, diagRun.cxString)
    /\ LET done == StringStep("dispose", diagRun.cxString, "")
       IN  diagRun' = IF diagRun.op = "getDiagnostics"
                      THEN [diagRun EXCEPT !.cxString = NoHandle,
                                           !.trace = Append(@, done),
                                           !.pc = "disposeDiagnostic"]
                      ELSE [diagRun EXCEPT !.cxString = NoHandle,
                                           !.trace = Append(@, done),
                                           !.result = diagRun.message,
                                           !.pc = "return"]
    /\ UNCHANGED openDiagnostics
    /\ UNCHANGED <<libVars, bridgeVars, tuVars, codecVars>>

\* diagnostics.push({severity, message, location});
\* disposeDiagnostic(diagnostic); i++
DisposeDiagnostic ==
    /\ diagRun.pc = "disposeDiagnostic"
    /\ openDiagnostics' = disposeDiagnostic(openDiagnostics, diagRun.diagnostic)
    /\ diagRun' = [diagRun EXCEPT
                     !.diagnostics = Append(@, [severity |-> diagRun.severity,
                                                message |-> diagRun.message,
                                                location |-> DefaultLocation]),
                     !.diagnostic = NoHandle,
                     !.i = @ + 1,
                     !.pc = LoopPc(diagRun.i + 1, diagRun.n)]
    /\ UNCHANGED openStrings
    /\ UNCHANGED <<libVars, bridgeVars, tuVars, codecVars>>

\* return diagnostics (getDiagnostics) or return result (the accessor).
StringCallReturn ==
    /\ diagRun.pc = "return"
    /\ diagRun' = [diagRun EXCEPT
                     !.outcome = "returned",
                     !.result = IF diagRun.op = "getDiagnostics"
                                THEN diagRun.diagnostics ELSE diagRun.result,
                     !.pc = "idle"]
    /\ UNCHANGED <<openDiagnostics, openStrings>>
    /\ UNCHANGED <<libVars, bridgeVars, tuVars, codecVars>>

\* ------------------------------------------------------- struct conversions

\* A number too wide for one model integer is the sequence of its 16-bit
\* limbs, least significant first: two limbs for an unsigned 32-bit value,
\* four for a 64-bit value or a packed location integer.  A signed 32-bit
\* value is a model integer.

\* The two's complement limbs of a signed 32-bit value, and back.
Int32Limbs(x) == <<x % 65536, (x \div 65536) % 65536>>
LimbsInt32(l) == (IF l[2] >= 32768 THEN l[2] - 65536 ELSE l[2]) * 65536 + l[1]

\* The little-endian bytes of a sequence of limbs.
BytesOf(limbs) ==
    [i \in 1..2 * Len(limbs) |->
        IF i % 2 = 1 THEN limbs[(i + 1) \div 2] % 256 ELSE limbs[i \div 2] \div 256]

\* new Uint8Array(n)
Zeroes(n) == [i \in 1..n |-> 0]

\* A buffer with the given bytes stored from a byte offset on.
Write(buffer, offset, bytes) ==
    [i \in 1..Len(buffer) |->
        IF i > offset /\ i <= offset + Len(bytes) THEN bytes[i - offset]
        ELSE buffer[i]]

\* The n limbs stored little-endian from a byte offset on.
LimbsAt(buffer, offset, n) ==
    [k \in 1..n |-> buffer[offset + 2 * k - 1] + 256 * buffer[offset + 2 * k]]

\* DataView.setUint32 / setInt32 / setBigUint64 (offset, value, true)
setUint32(buffer, offset, value) == Write(buffer, offset, SubSeq(BytesOf(value), 1, 4))
setInt32(buffer, offset, value) == Write(buffer, offset, BytesOf(Int32Limbs(value)))

setBigUint64_low32(buffer, offset, value) ==
    Write(buffer, offset, SubSeq(BytesOf(value), 1, 4))

setBigUint64(buffer, offset, value) == Write(buffer, offset, SubSeq(BytesOf(value), 1, 8))

\* DataView.getUint32 / getInt32 / getBigUint64 (offset, true)
getUint32(buffer, offset) == LimbsAt(buffer, offset, 2)
getInt32(buffer, offset) == LimbsInt32(LimbsAt(buffer, offset, 2))
getBigUint64(buffer, offset) == LimbsAt(buffer, offset, 4)

\* new NativeCXCursor(kind, xdata, data0, data1, data2).getBuffer()
NativeCXCursor(kind, xdata, data0, data1, data2) ==
    setBigUint64(
      setBigUint64(
        setBigUint64(
          setInt32(setUint32(Zeroes(40), 0, kind), 4, xdata),
          8, data0),
        16, data1),
      24, data2)

\* NativeCXCursor.toCXCursor() on that buffer
toCXCursor(buffer) ==
    [kind |-> getUint32(buffer, 0),
     xdata |-> getInt32(buffer, 4),
     data |-> <<getBigUint64(buffer, 8), getBigUint64(buffer, 16),
                getBigUint64(buffer, 24)>>]

\* cxTypeToBuffer(type)
cxTypeToBuffer(type) ==
    setBigUint64(
      setBigUint64(
        setUint32(setUint32(Zeroes(24), 0, type.kind), 4, type.reserved),
        8, type.data0),
      16, type.data1)

\* parseCXTypeFromBuffer(buffer)
parseCXTypeFromBuffer(buffer) ==
    [kind |-> getUint32(buffer, 0),
     reserved |-> getUint32(buffer, 4),
     data0 |-> getBigUint64(buffer, 8),
     data1 |-> getBigUint64(buffer, 16)]

\* Field values: 0, a small value, 2^31 and 2^32 - 1 for an unsigned 32-bit
\* field; -2^31, -1, 0, a small value and 2^31 - 1 for a signed one; 0, 2^32
\* and 2^64 - 1 for a 64-bit word.
U32Values == {<<0, 0>>, <<5, 0>>, <<0, 32768>>, <<65535, 65535>>}
I32Values == {-2147483647 - 1, -1, 0, 10, 2147483647}
U64Values == {<<0, 0, 0, 0>>, <<0, 0, 1, 0>>, <<65535, 65535, 65535, 65535>>}

\* The Type Descriptors: every field combination.
CXTypes ==
    {[kind |-> k, reserved |-> r, data0 |-> d0, data1 |-> d1] :
        k \in U32Values, r \in U32Values, d0 \in U64Values, d1 \in U64Values}

\* The record of one conversion; a behaviour of the conversion specification
\* makes one.
Codec(op, input, buffer, output) ==
    [op |-> op, input |-> input, buffer |-> buffer, output |-> output]
NoCodec == Codec(NONE, <<>>, <<>>, <<>>)
NoCodecCalls == lastCodec = NoCodec

\* new NativeCXCursor(kind, xdata, data0, data1, data2).toCXCursor()
CursorRoundTrip(kind, xdata, data0, data1, data2) ==
    /\ NoCodecCalls
    /\ LET buffer == NativeCXCursor(kind, xdata, data0, data1, data2)
       IN  lastCodec' = Codec("toCXCursor", <<kind, xdata, data0, data1, data2>>,
                              buffer, toCXCursor(buffer))
    /\ UNCHANGED <<libVars, bridgeVars, tuVars, diagVars>>

\* parseCXTypeFromBuffer(cxTypeToBuffer(type))
TypeRoundTrip(type) ==
    /\ NoCodecCalls
    /\ LET buffer == cxTypeToBuffer(type)
       IN  lastCodec' = Codec("parseCXTypeFromBuffer", type, buffer,
                              parseCXTypeFromBuffer(buffer))
    /\ UNCHANGED <<libVars, bridgeVars, tuVars, diagVars>>

\* A Uint8Array: the bytes of the ArrayBuffer it looks into (buffer), where it
\* starts there and how long it is.
Uint8Array(buffer, byteOffset, byteLength) ==
    [buffer |-> buffer, byteOffset |-> byteOffset, byteLength |-> byteLength]

\* new DataView(buffer, byteOffset, byteLength): the bytes the view reads and
\* writes, offset 0 being the first of them.
DataView(buffer, byteOffset, byteLength) ==
    SubSeq(buffer, byteOffset + 1, byteOffset + byteLength)

\* new DataView(buffer): the whole ArrayBuffer.
DataViewOf(buffer) == DataView(buffer, 0, Len(buffer))

\* parseCursorBuffer(buffer) of state.ts
parseCursorBuffer(buffer) ==
    LET view == DataView(buffer.buffer, buffer.byteOffset, buffer.byteLength)
    IN  [kind |-> getUint32(view, 0),
         xdata |-> getInt32(view, 4),
         data |-> <<getBigUint64(view, 8), getBigUint64(view, 16),
                    getBigUint64(view, 24)>>]

\* parseCXTypeFromBuffer(buffer) on a Uint8Array: it reads through
\* new DataView(buffer.buffer, buffer.byteOffset, buffer.byteLength).
parseCXTypeFromUint8Array(buffer) ==
    parseCXTypeFromBuffer(
        DataView(buffer.buffer, buffer.byteOffset, buffer.byteLength))

\* getPointer(buffer) of utils/ffi.ts
getPointer(buffer) == getBigUint64(DataViewOf(buffer.buffer), 0)

\* setPointer(buffer, ptr) of utils/ffi.ts: the Uint8Array afterwards.
setPointer(buffer, ptr) ==
    [buffer EXCEPT !.buffer = setBigUint64(DataViewOf(buffer.buffer), 0, ptr)]

\* A byte that belongs to a neighbour inside a larger block.
Filler(n) == [i \in 1..n |-> 170]

\* The bytes as a window into a larger block, with other bytes before and
\* after it; before = 0 and after = 0 give a standalone array.
WindowOn(bytes, before, after) ==
    Uint8Array(Filler(before) \o bytes \o Filler(after), before, Len(bytes))
Margins == {0, 8}

\* The bytes handed to the decoders: encoded cursors, Type Descriptors and
\* pointers.
CursorBytes ==
    {NativeCXCursor(kind, xdata, data0, <<0, 0, 0, 0>>, <<4096, 0, 0, 0>>) :
        kind \in {<<5, 0>>, <<65535, 65535>>}, xdata \in {-1, 10},
        data0 \in U64Values}
TypeBytes ==
    {cxTypeToBuffer(type) :
        type \in {t \in CXTypes : t.reserved = <<5, 0>> /\ t.data1 = <<0, 0, 1, 0>>}}
PointerBytes == {SubSeq(BytesOf(ptr), 1, 8) : ptr \in U64Values}

\* A decoder applied to a window; the record keeps what it returned and what
\* it returns for a standalone copy of the same bytes.
DecodeWindow(decoder, bytes, before, after) ==
    /\ NoCodecCalls
    /\ LET window == WindowOn(bytes, before, after)
           copy == WindowOn(bytes, 0, 0)
           Decode(b) == CASE decoder = "parseCursorBuffer" -> parseCursorBuffer(b)
                          [] decoder = "parseCXTypeFromUint8Array" ->
                               parseCXTypeFromUint8Array(b)
                          [] OTHER -> getPointer(b)
       IN  lastCodec' = Codec(decoder, window, bytes,
                              [value |-> Decode(window), copy |-> Decode(copy)])
    /\ UNCHANGED <<libVars, bridgeVars, tuVars, diagVars>>

\* setPointer on a window.
SetPointer(bytes, before, after, ptr) ==
    /\ NoCodecCalls
    /\ LET window == WindowOn(bytes, before, after)
       IN  lastCodec' = Codec("setPointer", window, SubSeq(BytesOf(ptr), 1, 8),
                              setPointer(window, ptr))
    /\ UNCHANGED <<libVars, bridgeVars, tuVars, diagVars>>

\* ------------------------------------------- symbols.ts: declared shapes

\* The struct shapes getLibclangSymbols declares for the symbols that take or
\* return a Type Descriptor: the shape of the parameter an accessor passes its
\* type or cursor argument in, and the shape of the result.
CursorShape == <<"u32", "i32", "pointer", "pointer", "pointer">>
TypeShape == <<"u32", "u32", "pointer", "pointer">>
StringShape == <<"pointer", "u64">>
getLibclangSymbols(symbol) ==
    CASE symbol = "clang_getCursorType" ->
           [parameter |-> CursorShape, result |-> TypeShape]
      [] symbol = "clang_getTypeSpelling" ->
           [parameter |-> TypeShape, result |-> StringShape]
      [] symbol = "clang_getNumArgTypes" ->
           [parameter |-> TypeShape, result |-> <<"i32">>]
      [] symbol = "clang_getArgType" ->
           [parameter |-> TypeShape, result |-> TypeShape]
      [] symbol = "clang_getTypedefDeclUnderlyingType" ->
           [parameter |-> CursorShape, result |-> CursorShape]
      [] symbol = "clang_Type_getValueType" ->
           [parameter |-> CursorShape, result |-> CursorShape]
      [] symbol = "clang_getResultType" ->
           [parameter |-> TypeShape, result |-> TypeShape]
      [] symbol = "clang_getPointeeType" ->
           [parameter |-> TypeShape, result |-> TypeShape]
      [] symbol = "clang_Type_getSizeOf" ->
           [parameter |-> TypeShape, result |-> <<"i64">>]
      [] OTHER ->
           [parameter |-> TypeShape, result |-> <<"i64">>]

\* The accessors of the type module: the symbol each one calls, whether it
\* passes a Type Descriptor buffer (cxTypeToBuffer) and whether it decodes the
\* result as a Type Descriptor (parseCXTypeResult).
TypeAccessors ==
    {[name |-> "getCursorType", symbol |-> "clang_getCursorType",
      takesType |-> FALSE, returnsType |-> TRUE],
     [name |-> "getTypedefUnderlyingType",
      symbol |-> "clang_getTypedefDeclUnderlyingType",
      takesType |-> FALSE, returnsType |-> TRUE],
     [name |-> "getValueType", symbol |-> "clang_Type_getValueType",
      takesType |-> TRUE, returnsType |-> TRUE],
     [name |-> "getTypeSpelling", symbol |-> "clang_getTypeSpelling",
      takesType |-> TRUE, returnsType |-> FALSE],
     [name |-> "getNumArgTypes", symbol |-> "clang_getNumArgTypes",
      takesType |-> TRUE, returnsType |-> FALSE],
     [name |-> "getArgType", symbol |-> "clang_getArgType",
      takesType |-> TRUE, returnsType |-> TRUE],
     [name |-> "getResultType", symbol |-> "clang_getResultType",
      takesType |-> TRUE, returnsType |-> TRUE],
     [name |-> "getPointeeType", symbol |-> "clang_getPointeeType",
      takesType |-> TRUE, returnsType |-> TRUE],
     [name |-> "getTypeSize", symbol |-> "clang_Type_getSizeOf",
      takesType |-> TRUE, returnsType |-> FALSE],
     [name |-> "getTypeAlignment", symbol |-> "clang_Type_getAlignOf",
      takesType |-> TRUE, returnsType |-> FALSE]}

\* A type accessor called with a decoded Type Descriptor (or, for the two that
\* take a cursor, with a cursor): the buffer it passes and the symbol's
\* declaration it passes it to.
TypeAccessorCall(accessor, type) ==
    /\ NoCodecCalls
    /\ symbols # 0
    /\ lastCodec' = Codec(accessor.name,
                          IF accessor.takesType THEN type ELSE <<>>,
                          IF accessor.takesType THEN cxTypeToBuffer(type)
                          ELSE <<>>,
                          [accessor |-> accessor,
                           declared |-> getLibclangSymbols(accessor.symbol)])
    /\ UNCHANGED <<libVars, bridgeVars, tuVars, diagVars>>

\* What the native library answers to clang_getNumArgTypes (an i32; -1 for a
\* type that is not a function) and to clang_getArgType (a Type Descriptor;
\* kind 0 is Invalid, 2 Void, 17 Int).
NativeCounts == {-1, 0, 2}
ArgIndexes == {0, 1, 2, 100}
NativeArgTypes ==
    {[kind |-> k, reserved |-> <<0, 0>>, data0 |-> d0, data1 |-> <<0, 0, 0, 0>>] :
        k \in {<<0, 0>>, <<2, 0>>, <<17, 0>>},
        d0 \in {<<0, 0, 0, 0>>, <<4096, 0, 1, 0>>}}

\* parseCXTypeResult(result): the native result arrives as bytes.
parseCXTypeResult(result) == parseCXTypeFromBuffer(result)

\* The outcome of one accessor call: what was thrown, the native calls made
\* and the value returned.
Accessed(threw, error, calls, result) ==
    [threw |-> threw, error |-> error, calls |-> calls, result |-> result]

getNumArgTypes_clamp(sym, type, native) ==
    LET got == getSymbols(sym)
        typeArg == cxTypeToBuffer(type)
    IN  IF got.threw THEN Accessed(TRUE, got.error, <<>>, 0)
        ELSE Accessed(FALSE, NoError,
                      <<EvRet("clang_getNumArgTypes", got.sym, TRUE,
                              <<typeArg>>, native)>>,
                      IF native < 0 THEN 0 ELSE native)
\* getNumArgTypes(type), native being the count the library answers.
getNumArgTypes(sym, type, native) ==
    LET got == getSymbols(sym)
        typeArg == cxTypeToBuffer(type)
    IN  IF got.threw THEN Accessed(TRUE, got.error, <<>>, 0)
        ELSE Accessed(FALSE, NoError,
                      <<EvRet("clang_getNumArgTypes", got.sym, TRUE,
                              <<typeArg>>, native)>>,
                      native)

\* getArgType(type, argIndex), native being the bytes the library answers.
getArgType(sym, type, argIndex, native) ==
    LET got == getSymbols(sym)
        typeArg == cxTypeToBuffer(type)
    IN  IF got.threw THEN Accessed(TRUE, got.error, <<>>, <<>>)
        ELSE Accessed(FALSE, NoError,
                      <<EvRet("clang_getArgType", got.sym, TRUE,
                              <<typeArg, argIndex>>, native)>>,
                      parseCXTypeResult(native))

\* The function types handed to the argument accessors (kind 111 is
\* FunctionProto) and types that are no functions.
ArgTypeInputs ==
    {[kind |-> k, reserved |-> <<0, 0>>, data0 |-> d0, data1 |-> d1] :
        k \in {<<111, 0>>, <<17, 0>>, <<0, 0>>},
        d0 \in U64Values, d1 \in {<<0, 0, 0, 0>>}}

GetNumArgTypes(type, native) ==
    /\ NoCodecCalls
    /\ lastCodec' = Codec("getNumArgTypes()", <<type>>, cxTypeToBuffer(type),
                          getNumArgTypes(symbols, type, native))
    /\ UNCHANGED <<libVars, bridgeVars, tuVars, diagVars>>

GetArgType(type, argIndex, native) ==
    /\ NoCodecCalls
    /\ lastCodec' = Codec("getArgType()", <<type, argIndex>>,
                          cxTypeToBuffer(type),
                          getArgType(symbols, type, argIndex,
                                     cxTypeToBuffer(native)))
    /\ UNCHANGED <<libVars, bridgeVars, tuVars, diagVars>>

\* ------------------------------------------ translation_unit.ts: FFI types

\* The characters of the strings this section works on.
Chars(s) ==
    CASE s = "uint8_t" -> <<"u", "i", "n", "t", "8", "_", "t">>
      [] s = "uint16_t" -> <<"u", "i", "n", "t", "1", "6", "_", "t">>
      [] s = "uint32_t" -> <<"u", "i", "n", "t", "3", "2", "_", "t">>
      [] s = "uint64_t" -> <<"u", "i", "n", "t", "6", "4", "_", "t">>
      [] s = "int8_t" -> <<"i", "n", "t", "8", "_", "t">>
      [] s = "int64_t" -> <<"i", "n", "t", "6", "4", "_", "t">>
      [] s = "UINT16_T" -> <<"U", "I", "N", "T", "1", "6", "_", "T">>
      [] s = "signed char" -> <<"s", "i", "g", "n", "e", "d", " ", "c", "h", "a", "r">>
      [] s = "short" -> <<"s", "h", "o", "r", "t">>
      [] s = "int" -> <<"i", "n", "t">>
      [] s = "unsigned int" -> <<"u", "n", "s", "i", "g", "n", "e", "d", " ", "i", "n", "t">>
      [] s = "float" -> <<"f", "l", "o", "a", "t">>
      [] s = "double" -> <<"d", "o", "u", "b", "l", "e">>
      [] s = "bool" -> <<"b", "o", "o", "l">>
      [] s = "char *" -> <<"c", "h", "a", "r", " ", "*">>
      [] s = "void *" -> <<"v", "o", "i", "d", " ", "*">>
      [] s = "struct Point" -> <<"s", "t", "r", "u", "c", "t", " ", "P", "o", "i", "n", "t">>
      [] s = "union U" -> <<"u", "n", "i", "o", "n", " ", "U">>
      [] s = "size_t" -> <<"s", "i", "z", "e", "_", "t">>
      [] s = "int8" -> <<"i", "n", "t", "8">>
      [] s = "uint8" -> <<"u", "i", "n", "t", "8">>
      [] s = "int16" -> <<"i", "n", "t", "1", "6">>
      [] s = "int16_t" -> <<"i", "n", "t", "1", "6", "_", "t">>
      [] s = "uint16" -> <<"u", "i", "n", "t", "1", "6">>
      [] s = "uint64" -> <<"u", "i", "n", "t", "6", "4">>
      [] s = "int64" -> <<"i", "n", "t", "6", "4">>
      [] s = "uint32" -> <<"u", "i", "n", "t", "3", "2">>
      [] s = "int32" -> <<"i", "n", "t", "3", "2">>
      [] s = "int32_t" -> <<"i", "n", "t", "3", "2", "_", "t">>
      [] s = "char" -> <<"c", "h", "a", "r">>
      [] s = "*" -> <<"*">>
      [] s = "void" -> <<"v", "o", "i", "d">>
      [] s = "struct " -> <<"s", "t", "r", "u", "c", "t", " ">>
      [] s = "union " -> <<"u", "n", "i", "o", "n", " ">>
      [] OTHER -> <<>>

\* The type spellings handed to typeKindToFFI.
Spellings ==
    {"uint8_t", "uint16_t", "uint32_t", "uint64_t", "int8_t",
     "int64_t", "UINT16_T", "signed char", "short", "int",
     "unsigned int", "float", "double", "bool", "char *",
     "void *", "struct Point", "union U", "size_t"}

\* String.prototype.toLowerCase, on the letters that occur in upper case.
LowerChar(c) ==
    CASE c = "U" -> "u" [] c = "I" -> "i" [] c = "N" -> "n" [] c = "T" -> "t"
      [] c = "P" -> "p" [] OTHER -> c
toLowerCase(chars) == [i \in 1..Len(chars) |-> LowerChar(chars[i])]

\* spelling.includes(s) and spelling.startsWith(s)
includes(spelling, s) ==
    \E i \in 1..(Len(spelling) - Len(Chars(s)) + 1) :
        SubSeq(spelling, i, i + Len(Chars(s)) - 1) = Chars(s)
startsWith(spelling, s) ==
    /\ Len(spelling) >= Len(Chars(s))
    /\ SubSeq(spelling, 1, Len(Chars(s))) = Chars(s)

\* The members of CXTypeKind that typeKindToFFI has a case for, and some it
\* leaves to the default branch.
CaseKinds ==
    {"Void", "Bool", "Char_U", "Char_S", "SChar", "UChar", "Short", "UShort",
     "Int", "UInt", "Long", "ULong", "LongLong", "ULongLong", "Float", "Double",
     "Pointer", "Enum", "Record", "Elaborated"}
DefaultKinds == {"Invalid", "Unexposed", "Typedef"}
TypeKinds == CaseKinds \cup DefaultKinds

\* Deno.build.arch
Archs == {"x86_64", "aarch64", "x86"}

\* The fixed-width integer tests that the Elaborated case and the default
\* branch make first, in the order of the code; NONE when none applies.
FixedWidth(spelling) ==
    IF includes(spelling, "int8") \/ includes(spelling, "int8_t") THEN "i8"
    ELSE IF includes(spelling, "uint8") \/ includes(spelling, "uint8_t") THEN "u8"
    ELSE IF includes(spelling, "int16") \/ includes(spelling, "int16_t") THEN "i16"
    ELSE IF includes(spelling, "uint16") \/ includes(spelling, "uint16_t") THEN "u16"
    ELSE IF includes(spelling, "uint64") \/ includes(spelling, "uint64_t") THEN "u64"
    ELSE IF includes(spelling, "int64") \/ includes(spelling, "int64_t") THEN "i64"
    ELSE IF includes(spelling, "uint32") \/ includes(spelling, "uint32_t") THEN "u32"
    ELSE IF includes(spelling, "int32") \/ includes(spelling, "int32_t") THEN "i32"
    ELSE NONE

\* typeKindToFFI(typeKind, typeSpelling), arch being Deno.build.arch.
typeKindToFFI(typeKind, typeSpelling, arch) ==
    LET spelling == toLowerCase(Chars(typeSpelling))
        wide == arch \in {"x86_64", "aarch64"}
    IN  CASE typeKind = "Void" -> "void"
          [] typeKind \in {"Bool", "Char_U", "Char_S"} -> "u8"
          [] typeKind = "SChar" -> IF includes(spelling, "uint8") THEN "u8" ELSE "i8"
          [] typeKind = "UChar" -> "u8"
          [] typeKind = "Short" -> IF includes(spelling, "uint16") THEN "u16" ELSE "i16"
          [] typeKind = "UShort" -> "u16"
          [] typeKind = "Int" -> IF includes(spelling, "uint32") THEN "u32" ELSE "i32"
          [] typeKind = "UInt" -> "u32"
          [] typeKind = "Long" -> IF wide THEN "i64" ELSE "i32"
          [] typeKind = "ULong" -> IF wide THEN "u64" ELSE "u32"
          [] typeKind = "LongLong" -> "i64"
          [] typeKind = "ULongLong" -> "u64"
          [] typeKind = "Float" -> "f32"
          [] typeKind = "Double" -> "f64"
          [] typeKind = "Pointer" -> "pointer"
          [] typeKind = "Enum" -> "i32"
          [] typeKind = "Record" -> "pointer"
          [] typeKind = "Elaborated" ->
               IF FixedWidth(spelling) # NONE THEN FixedWidth(spelling)
               ELSE IF includes(spelling, "float") THEN "f32"
               ELSE IF includes(spelling, "double") THEN "f64"
               ELSE IF includes(spelling, "bool") THEN "u8"
               ELSE IF includes(spelling, "char") /\ includes(spelling, "*")
                    THEN "pointer"
               ELSE IF includes(spelling, "void") /\ includes(spelling, "*")
                    THEN "pointer"
               ELSE IF startsWith(spelling, "struct ") \/ startsWith(spelling, "union ")
                    THEN "pointer"
               ELSE NULL
          [] OTHER ->
               IF FixedWidth(spelling) # NONE THEN FixedWidth(spelling)
               ELSE IF spelling = Chars("float") THEN "f32"
               ELSE IF spelling = Chars("double") THEN "f64"
               ELSE IF spelling = Chars("bool") THEN "u8"
               ELSE NULL

TypeKindToFFI(typeKind, typeSpelling, arch) ==
    /\ NoCodecCalls
    /\ lastCodec' = Codec("typeKindToFFI", <<typeKind, typeSpelling, arch>>, <<>>,
                          [ffi |-> typeKindToFFI(typeKind, typeSpelling, arch)])
    /\ UNCHANGED <<libVars, bridgeVars, tuVars, diagVars>>

\* --------------------------------------------- helpers.ts: source locations

\* JavaScript values: null, a bigint (by its limbs), a Deno pointer object, and
\* objects with ptr_data and int_data.
\* Every value carries the same fields; the ones its type does not have are
\* zero or empty.
Js(type, limbs, ptr_data, int_data) ==
    [type |-> type, limbs |-> limbs, ptr_data |-> ptr_data, int_data |-> int_data]
JsNull == Js("null", <<0, 0, 0, 0>>, <<>>, <<0, 0, 0, 0>>)
JsBigInt(limbs) == Js("bigint", limbs, <<>>, <<0, 0, 0, 0>>)
JsPointer == Js("pointer", <<0, 0, 0, 0>>, <<>>, <<0, 0, 0, 0>>)
JsStruct(ptr_data, int_data) == Js("struct", <<0, 0, 0, 0>>, ptr_data, int_data)

\* if (v), !v
JsTruthy(v) ==
    \/ v.type \in {"pointer", "struct"}
    \/ v.type = "bigint" /\ v.limbs # <<0, 0, 0, 0>>

\* typeof v === "object"
TypeofObject(v) == v.type \in {"null", "pointer", "struct"}

\* v.ptr_data is there and truthy: only the struct objects have the property.
HasPtrData(v) == v.type = "struct"

\* ToInt32 of a non-negative integer number: its low 32 bits, read as signed.
ToInt32(p) == LimbsInt32(<<p[1], p[2]>>)

RECURSIVE AndLimb(_, _)
AndLimb(a, b) ==
    IF a = 0 \/ b = 0 THEN 0
    ELSE (a % 2) * (b % 2) + 2 * AndLimb(a \div 2, b \div 2)

\* x & y on signed 32-bit operands
BitAnd(x, y) ==
    LimbsInt32(<<AndLimb(Int32Limbs(x)[1], Int32Limbs(y)[1]),
                 AndLimb(Int32Limbs(x)[2], Int32Limbs(y)[2])>>)

\* x >> n: the shift count is taken modulo 32
ShiftRight(x, n) == x \div (2 ^ (n % 32))

\* The number 0xFFFFFFFF
Mask == <<65535, 65535, 0, 0>>

\* What getFileName(cxFile) can do inside parseSourceLocation's try block.
FileNameOutcomes == {"point.c", "", "throw"}

\* parseSourceLocation(location); fileName is what getFileName does if called.
parseSourceLocation(location, fileName) ==
    LET decoded == JsTruthy(location) /\ TypeofObject(location)
                     /\ HasPtrData(location)
        filePtr == IF decoded THEN location.ptr_data[1] ELSE JsNull
        intData == IF decoded THEN location.int_data ELSE <<0, 0, 0, 0>>
        line == IF decoded THEN BitAnd(ToInt32(intData), ToInt32(Mask)) ELSE 0
        column == IF decoded
                  THEN BitAnd(ShiftRight(ToInt32(intData), 32), ToInt32(Mask))
                  ELSE 0
        file == IF JsTruthy(filePtr) /\ fileName \notin {"", "throw"}
                THEN fileName ELSE NULL
    IN  [file |-> file, line |-> line, column |-> column, offset |-> 0]

\* parseSourceRange(range)
parseSourceRange(range, fileName) ==
    IF ~JsTruthy(range.ptr_data[1]) \/ ~JsTruthy(range.ptr_data[2])
    THEN [start |-> DefaultLocation, end |-> DefaultLocation]
    ELSE [start |-> parseSourceLocation(range.ptr_data[1], fileName),
          end |-> parseSourceLocation(range.ptr_data[2], fileName)]

\* Packed location integers: line 5; line 3, column 7; and one with bit 31 of
\* the line set.
PackedValues == {<<0, 0, 0, 0>>, <<5, 0, 0, 0>>, <<3, 0, 7, 0>>, <<1, 32768, 2, 0>>}

\* Pointer-sized values as they reach these functions.
PointerValues == {JsNull, JsBigInt(<<0, 0, 0, 0>>), JsBigInt(<<4096, 0, 0, 0>>),
                  JsPointer}

Locations ==
    {JsStruct(<<f, JsNull>>, p) : f \in PointerValues, p \in PackedValues}
      \cup {JsNull, JsPointer, JsBigInt(<<4096, 0, 0, 0>>)}

\* The two ends of a range: pointer-sized values, or locations.
RangeEnds ==
    PointerValues
      \cup {JsStruct(<<f, JsNull>>, p) : f \in PointerValues, p \in PackedValues}
Ranges == {JsStruct(<<a, b>>, <<0, 0>>) : a \in RangeEnds, b \in RangeEnds}

\* parseSourceLocation(location) as the program runs it.
ParseSourceLocation(location) ==
    /\ NoCodecCalls
    /\ \E fileName \in FileNameOutcomes :
         lastCodec' = Codec("parseSourceLocation", <<location, fileName>>, <<>>,
                            parseSourceLocation(location, fileName))
    /\ UNCHANGED <<libVars, bridgeVars, tuVars, diagVars>>

\* parseSourceRange(range) as the program runs it.
ParseSourceRange(range) ==
    /\ NoCodecCalls
    /\ \E fileName \in FileNameOutcomes :
         lastCodec' = Codec("parseSourceRange", <<range, fileName>>, <<>>,
                            parseSourceRange(range, fileName))
    /\ UNCHANGED <<libVars, bridgeVars, tuVars, diagVars>>

\* ------------------------------------- cursor.ts, state.ts: the traversal

\* CXChildVisitResult, the visitor's result (src/src/ffi/types.ts).
Continue == 0
Break == 1
Recurse == 2
VisitResults == {Continue, Break, Recurse}

\* The visitor functions a caller can pass.
Visitors == {"outerVisitor", "innerVisitor"}

\* The syntax tree the native library holds, for
\*   struct Point { int x; int y; }; int a = 1; int b;
\* as the children of each cursor in declaration order.
Nodes == {"tu", "Point", "a", "b", "x", "y", "lit"}
Children(n) ==
    CASE n = "tu" -> <<"Point", "a", "b">>
      [] n = "Point" -> <<"x", "y">>
      [] n = "a" -> <<"lit">>
      [] OTHER -> <<>>

\* The CXCursor struct of a node as the native library passes it: kind, xdata
\* and three opaque data words.
CursorStruct(n) ==
    CASE n = "tu" -> <<350, 0, 0, 0, 4096>>
      [] n = "Point" -> <<2, 0, 4112, 0, 4096>>
      [] n = "a" -> <<9, 0, 4128, 0, 4096>>
      [] n = "b" -> <<9, 0, 4144, 0, 4096>>
      [] n = "x" -> <<6, 0, 4160, 0, 4096>>
      [] n = "y" -> <<6, 0, 4176, 0, 4096>>
      [] OTHER -> <<115, 1, 4192, 4128, 4096>>

\* new NativeCXCursor(kind, xdata, data0, data1, data2).getBuffer(): the 40-byte
\* buffer, as the fields the constructor writes at offsets 0, 4, 8, 16 and 24.
\* The trampoline passes the values it read from the native struct with the
\* same widths, so every field is stored unchanged.
NativeCXCursorBuffer(c) ==
    [kind |-> c[1], xdata |-> c[2], data0 |-> c[3], data1 |-> c[4], data2 |-> c[5]]

\* The snapshot the trampoline collects for a node.
Snapshot(n) == NativeCXCursorBuffer(CursorStruct(n))

\* setVisitor(visitor)
setVisitor(visitor) == [currentVisitor |-> visitor, collectedCursorBuffers |-> <<>>]

\* getVisitor()
getVisitor == currentVisitor

\* Arrays are objects: `arrays` holds the contents of every array created so
\* far and an array is known by its position there.  The assignment
\* `collectedCursorBuffers = []` of setVisitor and clearCollectedCursors makes
\* a new empty array and lets the module variable refer to it.
EmptyArray_reuse(heap, ref) == [arrays |-> heap, ref |-> ref]
EmptyArray(heap, ref) == [arrays |-> Append(heap, <<>>), ref |-> Len(heap) + 1]

\* clearCollectedCursors()
clearCollectedCursors(heap, ref) == EmptyArray(heap, ref)

\* collectedCursorBuffers.push(buffer) on the array the variable refers to.
Push(heap, ref, buffer) == [heap EXCEPT ![ref] = Append(@, buffer)]

\* addCollectedCursorBuffer(buffer)
addCollectedCursorBuffer(collected, buffer) == Append(collected, buffer)

createVisitorCallback_keepPrevious(stored, closed, made) ==
    [closedCallbacks |-> closed,
     currentCallback |-> made + 1,
     callbacksMade |-> made + 1,
     pointer |-> made + 1]

\* createVisitorCallback(): closes the stored callback if there is one, makes
\* a new UnsafeCallback, stores it and returns its pointer.
createVisitorCallback(stored, closed, made) ==
    [closedCallbacks |-> IF stored # 0 THEN closed \cup {stored} ELSE closed,
     currentCallback |-> made + 1,
     callbacksMade |-> made + 1,
     pointer |-> made + 1]

TrampolineCode_asIs(result) == result

\* The trampoline's return value for a visitor result: result === 0 ? 1 : 0.
TrampolineCode(result) == IF result = 0 THEN 1 ELSE 0

\* The trampoline's return value when no visitor is armed:
\* CXChildVisitResult.Continue.
NoVisitorCode == Continue

\* What the native traversal does with the code its callback returned, as
\* libclang defines it and the traversal tests observe it: 0 stops the
\* traversal, 1 goes on to the next sibling, 2 descends into the children.
NativeEffect(code) ==
    CASE code = 0 -> "stop"
      [] code = 1 -> "next"
      [] OTHER -> "descend"

\* The nodes the native traversal still has to visit after one callback.
NativeAdvance(todo, code) ==
    CASE NativeEffect(code) = "stop" -> <<>>
      [] NativeEffect(code) = "next" -> Tail(todo)
      [] OTHER -> Children(Head(todo)) \o Tail(todo)

\* What calling, or returning through, an UnsafeCallback can do: a live one
\* works; using a closed one is undefined behaviour, which either still works
\* (the freed closure is intact) or kills the process.
CallbackOutcomes(cb, closed) ==
    IF cb \in closed THEN {"works", "crash"} ELSE {"works"}

NoVisit == [node |-> "", visitor |-> NONE, result |-> -1, code |-> -1, effect |-> ""]
NoReturn ==
    [returned |-> FALSE, cursor |-> "", visitor |-> NONE, buffers |-> <<>>,
     delivered |-> <<>>, results |-> <<>>, depth |-> 0, nested |-> 0]

Top == stack[Len(stack)]
SetTop(f) == [stack EXCEPT ![Len(stack)] = f]

\* visitChildren(cursor, visitor) up to the point where the native traversal
\* starts: getSymbols, setVisitor, createVisitorCallback, clang_visitChildren.
\* It is called from the top level or from inside a running visitor.
VisitChildrenCall(cursor, visitor) ==
    /\ ~crashed
    /\ callbacksMade < MaxCalls
    /\ \/ stack = <<>>
       \/ /\ stack # <<>>
          /\ Len(stack) < MaxDepth
          /\ Top.pc = "visitor"
          /\ cursor = Top.node
    /\ LET got == getSymbols(symbols)
           armed == setVisitor(visitor)
           fresh == EmptyArray(arrays, collectedArray)
           made == createVisitorCallback(currentCallback, closedCallbacks, callbacksMade)
           frame == [cursor |-> cursor, visitor |-> visitor, cb |-> made.pointer,
                     todo |-> Children(cursor), pc |-> "native", node |-> "",
                     delivered |-> <<>>, results |-> <<>>, nested |-> 0]
       IN  IF got.threw
           THEN /\ lastCall' = [op |-> "visitChildren", arg |-> <<cursor, visitor>>,
                                preLib |-> libclang, preSym |-> symbols,
                                threw |-> TRUE, error |-> got.error,
                                events |-> <<>>, result |-> <<>>]
                /\ UNCHANGED bridgeVars
           ELSE /\ currentVisitor' = armed.currentVisitor
                /\ collectedCursorBuffers' = armed.collectedCursorBuffers
                /\ arrays' = fresh.arrays
                /\ collectedArray' = fresh.ref
                /\ closedCallbacks' = made.closedCallbacks
                /\ currentCallback' = made.currentCallback
                /\ callbacksMade' = made.callbacksMade
                /\ stack' = IF stack = <<>> THEN <<frame>>
                            ELSE Append(SetTop([Top EXCEPT !.nested = @ + 1]), frame)
                /\ UNCHANGED <<lastCall, lastVisit, lastReturn, crashed,
                               returnedArrays>>
    /\ UNCHANGED <<libclang, symbols, nativeLog, loadedPath>>
    /\ UNCHANGED <<tuVars, diagVars, codecVars>>

\* The native traversal calls the callback it was given on its next node; the
\* trampoline decodes the node and looks up the armed visitor.
TrampolineEnter ==
    /\ ~crashed
    /\ stack # <<>>
    /\ Top.pc = "native"
    /\ Top.todo # <<>>
    /\ \E o \in CallbackOutcomes(Top.cb, closedCallbacks) :
         LET n == Head(Top.todo)
             visitor == getVisitor
         IN  IF o = "crash"
             THEN /\ crashed' = TRUE
                  /\ UNCHANGED <<stack, lastVisit>>
             ELSE IF visitor # NONE
             THEN /\ stack' = SetTop([Top EXCEPT
                                 !.pc = "visitor", !.node = n,
                                 !.delivered = Append(@, [node |-> n, to |-> visitor])])
                  /\ UNCHANGED <<crashed, lastVisit>>
             ELSE /\ stack' = SetTop([Top EXCEPT
                                 !.todo = NativeAdvance(@, NoVisitorCode),
                                 !.delivered = Append(@, [node |-> n, to |-> NONE])])
                  /\ lastVisit' = [node |-> n, visitor |-> NONE, result |-> -1,
                                   code |-> NoVisitorCode,
                                   effect |-> NativeEffect(NoVisitorCode)]
                  /\ UNCHANGED crashed
    /\ UNCHANGED <<currentVisitor, collectedCursorBuffers, currentCallback,
                   closedCallbacks, callbacksMade, lastReturn, arrays,
                   collectedArray, returnedArrays>>
    /\ UNCHANGED libVars
    /\ UNCHANGED <<tuVars, diagVars, codecVars>>

\* The visitor returns; the trampoline collects the node's buffer, translates
\* the result and returns to the native traversal, which acts on the code.
VisitorReturn(result) ==
    /\ ~crashed
    /\ stack # <<>>
    /\ Top.pc = "visitor"
    /\ collectedCursorBuffers' =
         addCollectedCursorBuffer(collectedCursorBuffers, Snapshot(Top.node))
    /\ arrays' = Push(arrays, collectedArray, Snapshot(Top.node))
    /\ \E o \in CallbackOutcomes(Top.cb, closedCallbacks) :
         LET code == TrampolineCode(result)
         IN  /\ crashed' = (o = "crash")
             /\ stack' = SetTop([Top EXCEPT
                            !.pc = "native", !.node = "",
                            !.results = Append(@, result),
                            !.todo = NativeAdvance(@, code)])
             /\ lastVisit' = [node |-> Top.node, visitor |-> Top.delivered[Len(Top.delivered)].to,
                              result |-> result, code |-> code,
                              effect |-> NativeEffect(code)]
    /\ UNCHANGED <<currentVisitor, currentCallback, closedCallbacks,
                   callbacksMade, lastReturn, collectedArray, returnedArrays>>
    /\ UNCHANGED libVars
    /\ UNCHANGED <<tuVars, diagVars, codecVars>>

\* The native traversal is over: visitChildren closes the stored callback,
\* takes the collected buffers, clears the bridge and returns the buffers.
VisitChildrenReturn ==
    /\ ~crashed
    /\ stack # <<>>
    /\ Top.pc = "native"
    /\ Top.todo = <<>>
    /\ closedCallbacks' = IF currentCallback # 0
                          THEN closedCallbacks \cup {currentCallback}
                          ELSE closedCallbacks
    /\ currentCallback' = 0
    /\ lastReturn' = [returned |-> TRUE, cursor |-> Top.cursor,
                      visitor |-> Top.visitor,
                      buffers |-> collectedCursorBuffers,
                      delivered |-> Top.delivered, results |-> Top.results,
                      depth |-> Len(stack), nested |-> Top.nested]
    /\ collectedCursorBuffers' = <<>>
    /\ LET buffers == collectedArray
           cleared == clearCollectedCursors(arrays, collectedArray)
           disarmed == EmptyArray(cleared.arrays, cleared.ref)
       IN  /\ arrays' = disarmed.arrays
           /\ collectedArray' = disarmed.ref
           /\ returnedArrays' =
                Append(returnedArrays,
                       [array |-> buffers, cursor |-> Top.cursor])
    /\ currentVisitor' = setVisitor(NONE).currentVisitor
    /\ stack' = SubSeq(stack, 1, Len(stack) - 1)
    /\ UNCHANGED <<callbacksMade, lastVisit, crashed>>
    /\ UNCHANGED libVars
    /\ UNCHANGED <<tuVars, diagVars, codecVars>>

\* ------------------------------------------------ the library specification

BridgeIdle ==
    /\ currentVisitor = NONE
    /\ collectedCursorBuffers = <<>>
    /\ currentCallback = 0
    /\ closedCallbacks = {}
    /\ callbacksMade = 0
    /\ stack = <<>>
    /\ lastVisit = NoVisit
    /\ lastReturn = NoReturn
    /\ crashed = FALSE
    /\ arrays = <<<<>>>>
    /\ collectedArray = 1
    /\ returnedArrays = <<>>

\* No translation unit call has been made yet.
NoUnitCalls == reparseLog = <<>>

InitLib ==
    /\ libclang = 0
    /\ symbols = 0
    /\ nativeLog = <<>>
    /\ lastCall = NoCall
    /\ loadedPath = NONE
    /\ BridgeIdle
    /\ NoUnitCalls
    /\ NoStringCalls
    /\ NoCodecCalls

NextLib ==
    \/ \E libPath \in LibPaths, located \in LocatorAnswers, dl \in DlopenOutcomes :
         Load(libPath, located, dl)
    \/ Unload
    \/ \E excl \in BOOLEAN, disp \in BOOLEAN : CreateIndex(excl, disp)
    \/ \E index \in Indexes, sourceFile \in SourceFiles, args \in ArgLists,
          unsavedFiles \in UnsavedLists :
         ParseTranslationUnit(index, sourceFile, args, unsavedFiles)

SpecLib == InitLib /\ [][NextLib]_vars

\* ------------------------------------------- properties of the library

Unloaded(lib, sym) == lib = 0 /\ sym = 0
Loaded(lib, sym) == lib # 0 /\ sym # 0

IsOk(e) == e.ok
IsOpen(e) == e.ev = "dlopen"
IsClose(e) == e.ev = "close"
Contains(message, part) == \E i \in 1..Len(message) : message[i] = part
AccessorOps == {"createIndex", "parseTranslationUnit"}

\* C6: native opens and closes strictly alternate, starting with an open; a
\* load() opens only from Unloaded and does nothing when Loaded; an unload()
\* closes exactly when Loaded and does nothing when Unloaded.
C6_OpenCloseAlternate ==
    LET done == SelectSeq(nativeLog, IsOk)
    IN  /\ \A i \in 1..Len(done) :
             done[i].ev = IF i % 2 = 1 THEN "dlopen" ELSE "close"
        /\ lastCall.op = "load" =>
             /\ SelectSeq(lastCall.events, IsOpen) # <<>> =>
                  Unloaded(lastCall.preLib, lastCall.preSym)
             /\ Loaded(lastCall.preLib, lastCall.preSym) => lastCall.events = <<>>
             /\ Len(lastCall.events) <= 1
        /\ lastCall.op = "unload" =>
             /\ Loaded(lastCall.preLib, lastCall.preSym) =>
                  /\ Len(lastCall.events) = 1
                  /\ lastCall.events[1].ev = "close"
                  /\ lastCall.events[1].handle = lastCall.preLib
             /\ Unloaded(lastCall.preLib, lastCall.preSym) => lastCall.events = <<>>

\* C6 witness: after open, close and open again, a further load() did nothing.
C6_Witness ==
    /\ Len(SelectSeq(nativeLog, IsOk)) = 3
    /\ lastCall.op = "load"
    /\ lastCall.events = <<>>
    /\ ~lastCall.threw
    /\ Loaded(lastCall.preLib, lastCall.preSym)

\* C7: the library handle and the symbol table are both present or both
\* absent, and a present table is the table of the present handle.
C7_NoHalfLoadedState ==
    /\ (libclang = 0) <=> (symbols = 0)
    /\ symbols # 0 => symbols = libclang

\* C7 witness: a load whose native open failed has just returned, and a
\* library had been loaded and unloaded before it.
C7_Witness ==
    /\ lastCall.op = "load"
    /\ lastCall.threw
    /\ lastCall.events # <<>>
    /\ SelectSeq(nativeLog, IsClose) # <<>>
    /\ libclang = 0
    /\ symbols = 0

\* C8: an accessor throws the not-loaded error, with no native call, exactly
\* when the state is Unloaded; when Loaded it makes its native call through
\* the current symbol table.
C8_AccessorNeedsLoaded ==
    lastCall.op \in AccessorOps =>
        /\ Unloaded(lastCall.preLib, lastCall.preSym) =>
             /\ lastCall.threw
             /\ lastCall.error = NotLoadedMessage
             /\ lastCall.events = <<>>
        /\ Loaded(lastCall.preLib, lastCall.preSym) =>
             /\ ~lastCall.threw
             /\ Len(lastCall.events) = 1
             /\ lastCall.events[1].handle = lastCall.preSym
        /\ lastCall.threw => Unloaded(lastCall.preLib, lastCall.preSym)
        /\ Unloaded(lastCall.preLib, lastCall.preSym)
             \/ Loaded(lastCall.preLib, lastCall.preSym)

\* C8 witness: an accessor succeeded after load, unload and load again.
C8_Witness ==
    /\ lastCall.op = "createIndex"
    /\ ~lastCall.threw
    /\ Len(SelectSeq(nativeLog, IsOk)) = 3

\* The path a load call attempts, and the text of what the loader threw.
AttemptedPath(arg) == IF arg[1] \notin {UNDEFINED, ""} THEN arg[1] ELSE arg[2]
LoaderText(arg) == IF arg[3].isError THEN arg[3].message ELSE arg[3].value

\* C9: a load whose native open fails throws a message carrying the attempted
\* path and the loader's message and leaves the state Unloaded; until an open
\* succeeds every accessor throws; a load whose native open succeeds from
\* Unloaded returns with the state Loaded.
C9_LoadFailure ==
    /\ lastCall.op = "load" /\ lastCall.events # <<>> /\ ~lastCall.events[1].ok =>
         /\ lastCall.threw
         /\ Contains(lastCall.error, AttemptedPath(lastCall.arg))
         /\ Contains(lastCall.error, LoaderText(lastCall.arg))
         /\ lastCall.events[1].args = <<AttemptedPath(lastCall.arg)>>
         /\ Unloaded(libclang, symbols)
    /\ nativeLog # <<>> /\ ~nativeLog[Len(nativeLog)].ok =>
         /\ Unloaded(libclang, symbols)
         /\ lastCall.op \in AccessorOps => lastCall.threw /\ lastCall.events = <<>>
    /\ lastCall.op = "load" /\ lastCall.events # <<>> /\ lastCall.events[1].ok =>
         /\ ~lastCall.threw
         /\ Loaded(libclang, symbols)

\* C9 witness: a load succeeded after an earlier load's native open had failed.
C9_Witness ==
    /\ lastCall.op = "load"
    /\ ~lastCall.threw
    /\ lastCall.events # <<>>
    /\ \E i \in 1..Len(nativeLog) : ~nativeLog[i].ok
    /\ Loaded(libclang, symbols)

\* A source path that is empty or not a string.
BadPath(sourceFile) == sourceFile.type # "string" \/ sourceFile.text = ""

\* The error of a parse result for the given inputs, library loaded.
ParseError(index, sourceFile) ==
    parseTranslationUnit(1, index, sourceFile, <<>>, <<>>, 0).result.error

\* C10: with the library loaded, parseTranslationUnit with a null index or an
\* empty or non-string path makes no native call and returns a failure result,
\* and the message for a bad index differs from the message for a bad path.
C10_InputValidation ==
    lastCall.op = "parseTranslationUnit"
      /\ Loaded(lastCall.preLib, lastCall.preSym)
      /\ (lastCall.arg[1] = 0 \/ BadPath(lastCall.arg[2])) =>
        /\ lastCall.events = <<>>
        /\ ~lastCall.threw
        /\ lastCall.result.translationUnit = 0
        /\ lastCall.result.error # NoError
        /\ lastCall.arg[1] = 0 /\ ~BadPath(lastCall.arg[2]) =>
             \A bad \in {f \in SourceFiles : BadPath(f)} :
                lastCall.result.error # ParseError(1, bad)

\* The native parse call of the last parseTranslationUnit call.
ParseCalled == lastCall.op = "parseTranslationUnit" /\ lastCall.events # <<>>
NativeParse == lastCall.events[1]
NonEmptyMessage(m) == m # <<>> /\ \A i \in 1..Len(m) : m[i] # ""

\* C11: a parseTranslationUnit call that reached the native parse does not
\* throw; a null native handle gives translationUnit = null with a non-empty
\* error, a non-null handle gives that handle and no error property.
C11_ParseFailureIsResult ==
    ParseCalled =>
        /\ ~lastCall.threw
        /\ NativeParse.ret = 0 =>
             /\ lastCall.result.translationUnit = 0
             /\ NonEmptyMessage(lastCall.result.error)
        /\ NativeParse.ret # 0 =>
             /\ lastCall.result.translationUnit = NativeParse.ret
             /\ lastCall.result.error = NoError

\* C11 witness: with a valid index and path the native parse returned null.
C11_Witness ==
    /\ ParseCalled
    /\ lastCall.arg[1] # 0
    /\ ~BadPath(lastCall.arg[2])
    /\ NativeParse.ret = 0
    /\ lastCall.result.translationUnit = 0

\* --------------------------------------------- the traversal specification

\* The bridge after module load, with the library either never loaded or
\* loaded by a load() that found an installation.
InitBridge ==
    LET arg == <<UNDEFINED, "/usr/lib/libclang.so",
                 [ok |-> TRUE, isError |-> FALSE, message |-> "", value |-> ""]>>
        out == load(0, 0, arg[1], arg[2], arg[3], 1)
    IN  \/ InitLib
        \/ /\ libclang = out.libclang
           /\ symbols = out.symbols
           /\ nativeLog = LibraryEvents(out.events)
           /\ lastCall = Call("load", arg, <<0, 0>>, out, <<>>)
           /\ loadedPath = PathAfter(NONE, out.events)
           /\ BridgeIdle
           /\ NoUnitCalls
           /\ NoStringCalls
           /\ NoCodecCalls

NextBridge ==
    \/ \E cursor \in Nodes, visitor \in Visitors : VisitChildrenCall(cursor, visitor)
    \/ TrampolineEnter
    \/ \E result \in VisitResults : VisitorReturn(result)
    \/ VisitChildrenReturn

SpecBridge == InitBridge /\ [][NextBridge]_vars

\* ------------------------------------------ properties of the traversal

\* The nodes of a delivery history that were handed to a visitor.
HandedToVisitor(d) == d.to # NONE
InvokedOn(delivered) ==
    LET sel == SelectSeq(delivered, HandedToVisitor)
    IN  [i \in 1..Len(sel) |-> sel[i].node]
Snapshots(nodes) == [i \in 1..Len(nodes) |-> Snapshot(nodes[i])]

\* C1: a running traversal has its own visitor armed, also after a nested
\* visitChildren has returned into its callback, and every node its native
\* traversal delivers goes to its own visitor.
C1_NestedRestoresOuterVisitor ==
    /\ stack # <<>> /\ ~crashed => currentVisitor = Top.visitor
    /\ \A i \in 1..Len(stack) : \A j \in 1..Len(stack[i].delivered) :
         stack[i].delivered[j].to = stack[i].visitor
    /\ \A j \in 1..Len(lastReturn.delivered) :
         lastReturn.delivered[j].to = lastReturn.visitor

\* C2: the native traversal does what the visitor's result means: Continue
\* goes on to the next sibling, Break stops, Recurse descends; and Recurse and
\* Break are not translated to the same native code.
C2_ResultTranslation ==
    lastVisit.result \in VisitResults =>
        /\ lastVisit.result = Continue => lastVisit.effect = "next"
        /\ lastVisit.result = Break => lastVisit.effect = "stop"
        /\ lastVisit.result = Recurse =>
             /\ lastVisit.effect = "descend"
             /\ lastVisit.code # TrampolineCode(Break)

\* C3: a visitChildren call returns one snapshot per invocation of its visitor
\* during that call, in invocation order, and nothing else.
C3_ReturnsVisitedNodes ==
    lastReturn.returned =>
        lastReturn.buffers = Snapshots(InvokedOn(lastReturn.delivered))

\* C4: when the visitor returned Continue every time, it was invoked on the
\* direct children of the cursor, once each and in order, and the call
\* returned their snapshots.
C4_ContinueVisitsAllChildren ==
    lastReturn.returned /\ (\A i \in 1..Len(lastReturn.results) :
                              lastReturn.results[i] = Continue) =>
        /\ InvokedOn(lastReturn.delivered) = Children(lastReturn.cursor)
        /\ lastReturn.buffers = Snapshots(Children(lastReturn.cursor))

\* C5: when the visitor returned Break on the first node, it was invoked
\* exactly once and the call returned exactly one snapshot.
C5_BreakOnFirstNode ==
    lastReturn.returned /\ lastReturn.results # <<>>
      /\ lastReturn.results[1] = Break =>
        /\ Len(InvokedOn(lastReturn.delivered)) = 1
        /\ Len(lastReturn.results) = 1
        /\ Len(lastReturn.buffers) = 1

\* C5 witness: the visitor broke on the first of three siblings.
C5_Witness ==
    /\ lastReturn.returned
    /\ lastReturn.results = <<Break>>
    /\ Len(Children(lastReturn.cursor)) = 3
    /\ Len(lastReturn.buffers) = 1

\* ------------------------------------ the translation unit specification

\* Parsing and reparsing, with the library either never loaded or loaded.
NextTU ==
    \/ \E index \in Indexes, sourceFile \in SourceFiles, args \in ArgLists,
          unsavedFiles \in UnsavedLists :
         ParseTranslationUnit(index, sourceFile, args, unsavedFiles)
    \/ \E unit \in Units, unsavedFiles \in UnsavedLists :
         ReparseTranslationUnit(unit, unsavedFiles)

SpecTU == InitBridge /\ [][NextTU]_vars

\* ------------------------------------- properties of translation units

\* C12: a successful parse result has a _keepAlive list, and every buffer whose
\* address went to the native parse (the source path buffer, the argument
\* array, the unsaved-file array) is in it.
C12_KeepAliveCarriesBuffers ==
    ParseCalled /\ ~lastCall.threw /\ lastCall.result.translationUnit # 0 =>
        /\ lastCall.result.hasKeepAlive
        /\ \A i \in {2, 3, 5} :
             NativeParse.args[i] # NullPointer =>
                Contains(lastCall.result.keepAlive, NativeParse.args[i][2])

\* A list, the pointer and count that went to the native call for it, and
\* the keep-alive list its conversion returned, agree.
ListAgrees(list, converted, ptr, count) ==
    /\ count = Len(list)
    /\ list = <<>> => ptr = NullPointer /\ converted.keepAlive = <<>>
    /\ list # <<>> => ptr # NullPointer /\ Len(ptr[2]) = Len(list)
    /\ ~(ptr = NullPointer /\ count # 0)

ReparseCalled == lastCall.op = "reparseTranslationUnit" /\ lastCall.events # <<>>
NativeReparse == lastCall.events[1]

\* C13: the pointer and count of the argument list and of the unsaved-file
\* list handed to the native parse, and of the unsaved-file list handed to the
\* native reparse, agree with the list: null and 0 for an empty list, a
\* non-null pointer to n items and n for a list of n.
C13_PointerCountAgree ==
    /\ ParseCalled =>
         /\ ListAgrees(lastCall.arg[3], argsToNativePointer(lastCall.arg[3]),
                       NativeParse.args[3], NativeParse.args[4])
         /\ ListAgrees(lastCall.arg[4], unsavedFilesToNativePointer(lastCall.arg[4]),
                       NativeParse.args[5], NativeParse.args[6])
    /\ ReparseCalled =>
         ListAgrees(lastCall.arg[2], unsavedFilesToNativePointer(lastCall.arg[2]),
                    NativeReparse.args[3], NativeReparse.args[2])

\* C16: a reparseTranslationUnit call that reaches the native library makes
\* exactly one native reparse, on the handle it was given, and returns that
\* call's status; this holds for each of the successive reparses.
C16_ReparseOnceSameHandle ==
    /\ \A i \in 1..Len(reparseLog) :
         ~reparseLog[i].threw =>
            /\ Len(reparseLog[i].calls) = 1
            /\ reparseLog[i].calls[1].unit = reparseLog[i].unit
            /\ reparseLog[i].result = reparseLog[i].calls[1].ret
    /\ lastCall.op = "reparseTranslationUnit" /\ ~lastCall.threw =>
         /\ Len(lastCall.events) = 1
         /\ NativeReparse.ev = "clang_reparseTranslationUnit"
         /\ NativeReparse.args[1] = lastCall.arg[1]
         /\ lastCall.result = NativeReparse.ret

\* C16 witness: two successive reparses of the same handle, the first of which
\* failed with a non-zero status and the second of which succeeded.
C16_Witness ==
    /\ Len(reparseLog) = 2
    /\ reparseLog[1].unit = reparseLog[2].unit
    /\ ~reparseLog[1].threw /\ reparseLog[1].result # 0
    /\ ~reparseLog[2].threw /\ reparseLog[2].result = 0
    /\ Len(reparseLog[2].calls) = 1

\* ------------------------------------------ the diagnostics specification

NextStrings ==
    \/ \E unit \in DiagnosedUnits : GetDiagnosticsCall(unit)
    \/ \E spelling \in TypeSpellings : GetTypeSpellingCall(spelling)
    \/ GetDiagnostic
    \/ GetDiagnosticSeverity
    \/ GetDiagnosticSpelling
    \/ GetCString
    \/ DisposeString
    \/ DisposeDiagnostic
    \/ StringCallReturn

SpecStrings == InitBridge /\ [][NextStrings]_vars

\* The handles the current or last call obtained that are still open.
StillOpen == diagRun.obtained \cap (openDiagnostics \cup openStrings)
Exited == diagRun.outcome \in {"returned", "threw"}

\* C14: when getDiagnostics or a string accessor has exited, by returning or
\* by throwing, every string handle and diagnostic handle it obtained has been
\* released.
C14_AllHandlesReleased == Exited => StillOpen = {}

\* C15: while getDiagnostics runs at most one of the diagnostic handles it
\* fetched is open, none is open when it fetches the next one, and none is
\* open when it returns.
C15_OneDiagnosticOpen ==
    diagRun.op = "getDiagnostics" =>
        /\ Cardinality(diagRun.obtained \cap openDiagnostics) <= 1
        /\ diagRun.pc = "getDiagnostic" => diagRun.obtained \cap openDiagnostics = {}
        /\ diagRun.outcome = "returned" => diagRun.obtained \cap openDiagnostics = {}

\* C15 witness: getDiagnostics returned two diagnostics, having fetched two
\* handles.
C15_Witness ==
    /\ diagRun.op = "getDiagnostics"
    /\ diagRun.outcome = "returned"
    /\ Len(diagRun.result) = 2
    /\ Cardinality({h \in diagRun.obtained : h[1] = "CXDiagnostic"}) = 2
    /\ openDiagnostics = {}

\* The entry getDiagnostics has to return for the native diagnostic at an
\* index (counted from 1 here).
EntryFor(unit, i) ==
    [severity |-> DiagnosticsOf(unit)[i].severity,
     message |-> DecodeCString(DiagnosticsOf(unit)[i].spelling),
     location |-> DefaultLocation]

\* C23: the list getDiagnostics returns has as many entries as the count it
\* queried at the start, and entry i carries the severity and the message of
\* the native diagnostic at index i, in ascending order.
C23_OneEntryPerDiagnostic ==
    (diagRun.op = "getDiagnostics" /\ diagRun.outcome = "returned") =>
        /\ diagRun.n = getNumDiagnostics(diagRun.arg)
        /\ Len(diagRun.result) = diagRun.n
        /\ \A i \in 1..Len(diagRun.result) :
             diagRun.result[i] = EntryFor(diagRun.arg, i)

\* getDiagnostics returned the two diagnostics of the first unit, the warning
\* before the error.
C23_Witness ==
    /\ diagRun.op = "getDiagnostics"
    /\ diagRun.outcome = "returned"
    /\ diagRun.arg = 1
    /\ Len(diagRun.result) = 2
    /\ diagRun.result[1].severity = 2
    /\ diagRun.result[2].message = "expected expression"

\* The positions of the trace at which a step was done on a string handle.
Steps(step, cxString) ==
    {k \in 1..Len(diagRun.trace) :
        diagRun.trace[k].step = step /\ diagRun.trace[k].cxString = cxString}
StringsObtained == {h \in diagRun.obtained : h[1] = "CXString"}

\* C25: a string handle is released at most once and only after its
\* characters were copied, nothing is copied from it after the release, and
\* when the call has exited it has been released exactly once.
C25_ReleasedOnceAfterCopy ==
    \A h \in StringsObtained :
        /\ Cardinality(Steps("dispose", h)) <= 1
        /\ \A d \in Steps("dispose", h) :
             /\ Steps("copy", h) # {}
             /\ \A c \in Steps("copy", h) : c < d
        /\ Exited => Cardinality(Steps("dispose", h)) = 1

\* --------------------------------------------- the conversion specification

NextCodec ==
    \/ \E kind \in U32Values, xdata \in I32Values, data0 \in U64Values,
          data1 \in U64Values, data2 \in U64Values :
         CursorRoundTrip(kind, xdata, data0, data1, data2)
    \/ \E type \in CXTypes : TypeRoundTrip(type)
    \/ \E accessor \in TypeAccessors, type \in CXTypes :
         TypeAccessorCall(accessor, type)
    \/ \E type \in ArgTypeInputs, native \in NativeCounts :
         GetNumArgTypes(type, native)
    \/ \E type \in ArgTypeInputs, argIndex \in ArgIndexes,
          native \in NativeArgTypes :
         GetArgType(type, argIndex, native)
    \/ \E decoder \in {"parseCursorBuffer", "parseCXTypeFromUint8Array", "getPointer"},
          before \in Margins, after \in Margins :
         \E bytes \in (CASE decoder = "parseCursorBuffer" -> CursorBytes
                          [] decoder = "parseCXTypeFromUint8Array" -> TypeBytes
                          [] OTHER -> PointerBytes) :
            DecodeWindow(decoder, bytes, before, after)
    \/ \E bytes \in PointerBytes, before \in Margins, after \in Margins,
          ptr \in U64Values :
         SetPointer(bytes, before, after, ptr)
    \/ \E typeKind \in TypeKinds, typeSpelling \in Spellings, arch \in Archs :
         TypeKindToFFI(typeKind, typeSpelling, arch)
    \/ \E location \in Locations : ParseSourceLocation(location)
    \/ \E range \in Ranges : ParseSourceRange(range)

SpecCodec == InitBridge /\ [][NextCodec]_vars

\* C17: decoding an encoded cursor gives back kind, xdata and the three data
\* words it was built from, and decoding an encoded Type Descriptor gives back
\* the descriptor.
C17_RoundTrip ==
    /\ lastCodec.op = "toCXCursor" =>
         lastCodec.output = [kind |-> lastCodec.input[1],
                             xdata |-> lastCodec.input[2],
                             data |-> <<lastCodec.input[3], lastCodec.input[4],
                                        lastCodec.input[5]>>]
    /\ lastCodec.op = "parseCXTypeFromBuffer" =>
         lastCodec.output = lastCodec.input

\* C17 witness: a cursor with kind 2^32 - 1, xdata -2^31 and data words
\* 2^64 - 1, 0 and 2^32 was encoded and decoded.
C17_Witness ==
    /\ lastCodec.op = "toCXCursor"
    /\ lastCodec.input = <<<<65535, 65535>>, -2147483647 - 1,
                           <<65535, 65535, 65535, 65535>>, <<0, 0, 0, 0>>,
                           <<0, 0, 1, 0>>>>
    /\ lastCodec.output.xdata = -2147483647 - 1
    /\ lastCodec.buffer[1] = 255 /\ lastCodec.buffer[8] = 128

\* The byte layout a declared struct shape stands for: every field at the
\* next offset that is a multiple of its size.
FieldSize(t) == IF t \in {"u32", "i32"} THEN 4 ELSE 8
Align(n, a) == ((n + a - 1) \div a) * a
RECURSIVE EndOf(_, _)
EndOf(shape, k) ==
    IF k = 0 THEN 0
    ELSE Align(EndOf(shape, k - 1), FieldSize(shape[k])) + FieldSize(shape[k])
LayoutOf(shape) ==
    [k \in 1..Len(shape) |->
        [offset |-> Align(EndOf(shape, k - 1), FieldSize(shape[k])),
         type |-> shape[k]]]
ShapeSize(shape) == Align(EndOf(shape, Len(shape)), 8)

\* The layout cxTypeToBuffer writes and parseCXTypeFromBuffer reads.
CodecTypeLayout ==
    <<[offset |-> 0, type |-> "u32"], [offset |-> 4, type |-> "u32"],
      [offset |-> 8, type |-> "pointer"], [offset |-> 16, type |-> "pointer"]>>

TypeAccessorCalled == lastCodec.op \in {a.name : a \in TypeAccessors}

\* C18: the symbol a type accessor calls is declared with the Type Descriptor
\* layout of the codec wherever it takes or returns a Type Descriptor, and the
\* buffer the accessor passes has the size of the declared parameter.
C18_DeclaredShapeAgrees ==
    TypeAccessorCalled =>
        /\ lastCodec.output.accessor.takesType =>
             /\ LayoutOf(lastCodec.output.declared.parameter) = CodecTypeLayout
             /\ ShapeSize(lastCodec.output.declared.parameter) = Len(lastCodec.buffer)
        /\ lastCodec.output.accessor.returnsType =>
             LayoutOf(lastCodec.output.declared.result) = CodecTypeLayout

\* A signed model integer equals the unsigned 32-bit value with these limbs.
IsNumber(x, lo, hi) == hi < 32768 /\ x = lo + 65536 * hi

\* C19: for a location with packed integer p, line is p mod 2^32 and column
\* is floor(p / 2^32) mod 2^32, both non-negative.
C19_LineColumnDecomposition ==
    lastCodec.op = "parseSourceLocation" /\ lastCodec.input[1].type = "struct" =>
        /\ IsNumber(lastCodec.output.line, lastCodec.input[1].int_data[1],
                    lastCodec.input[1].int_data[2])
        /\ IsNumber(lastCodec.output.column, lastCodec.input[1].int_data[3],
                    lastCodec.input[1].int_data[4])

\* C20: each end of a range is decomposed on its own: an end that is not a
\* location yields the default location, an end that is a location yields what
\* parseSourceLocation makes of it, whatever the other end is.
C20_EndsIndependent ==
    lastCodec.op = "parseSourceRange" =>
        \A k \in {1, 2} :
            LET end == lastCodec.input[1].ptr_data[k]
                got == IF k = 1 THEN lastCodec.output.start
                       ELSE lastCodec.output.end
            IN  got = IF end.type = "struct"
                      THEN parseSourceLocation(end, lastCodec.input[2])
                      ELSE DefaultLocation

\* --------------------------------------------------- argument accessors

ArgAccessorCalled == lastCodec.op \in {"getNumArgTypes()", "getArgType()"}
NativeAnswer == lastCodec.output.calls[1].ret

\* C21: with the library loaded, getNumArgTypes and getArgType do not throw,
\* make one native call with the encoded type (and the index as given), and
\* return what the library answered: the count as it is, a negative one
\* included, and the decoded Type Descriptor whose kind is the kind the
\* library produced, also for an index at or beyond the argument count.
C21_ArgAccessorsPassThrough ==
    (ArgAccessorCalled /\ symbols # 0) =>
        /\ ~lastCodec.output.threw
        /\ Len(lastCodec.output.calls) = 1
        /\ lastCodec.output.calls[1].args[1] = lastCodec.buffer
        /\ lastCodec.op = "getNumArgTypes()" =>
             lastCodec.output.result = NativeAnswer
        /\ lastCodec.op = "getArgType()" =>
             /\ lastCodec.output.calls[1].args[2] = lastCodec.input[2]
             /\ cxTypeToBuffer(lastCodec.output.result) = NativeAnswer
             /\ lastCodec.output.result.kind = getUint32(NativeAnswer, 0)

\* A count of -1 came back for a type that is no function.
C21_Witness ==
    /\ symbols # 0
    /\ lastCodec.op = "getNumArgTypes()"
    /\ lastCodec.input[1].kind = <<17, 0>>
    /\ ~lastCodec.output.threw
    /\ lastCodec.output.result = -1

\* ------------------------------------------------ separate traversals

\* The nodes a traversal started at n can reach.
RECURSIVE Below(_)
Below(n) ==
    LET c == Children(n)
    IN  {c[i] : i \in 1..Len(c)} \cup UNION {Below(c[i]) : i \in 1..Len(c)}

\* No step changes an array that a visitChildren call has returned.
ReturnedUntouched ==
    \A i \in 1..Len(returnedArrays) :
        arrays'[returnedArrays[i].array] = arrays[returnedArrays[i].array]

\* The snapshots of the nodes below each node.
SnapshotsBelow == [n \in Nodes |-> {Snapshot(m) : m \in Below(n)}]

\* Every returned array holds snapshots of nodes below its call's cursor only.
OwnNodesOnly ==
    \A i \in 1..Len(returnedArrays) :
        LET result == arrays[returnedArrays[i].array]
        IN  \A j \in 1..Len(result) :
                result[j] \in SnapshotsBelow[returnedArrays[i].cursor]

\* C22: the array a visitChildren call returned is not modified by anything
\* that happens later, a later visitChildren call included, and the array a
\* call returns holds nodes of its own traversal only.
C22_ResultsIndependent == [][ReturnedUntouched /\ OwnNodesOnly']_vars

\* The children of the translation unit were visited, then the fields of the
\* struct: the second result holds the two fields, the first still its three
\* declarations.
C22_Witness ==
    /\ stack = <<>>
    /\ Len(returnedArrays) = 2
    /\ returnedArrays[1].cursor = "tu"
    /\ returnedArrays[2].cursor = "Point"
    /\ arrays[returnedArrays[1].array] = Snapshots(Children("tu"))
    /\ arrays[returnedArrays[2].array] = Snapshots(Children("Point"))

\* ------------------------------------------------------ back to idle

\* The bridge is idle: no visitor armed, nothing collected, no callback stored.
Idle ==
    /\ currentVisitor = NONE
    /\ collectedCursorBuffers = <<>>
    /\ arrays[collectedArray] = <<>>
    /\ currentCallback = 0

\* The step is the return of a visitChildren call.
ReturnStep == Len(stack') < Len(stack)

\* The callback objects that were created and not closed.
LiveCallbacks == (1..callbacksMade) \ closedCallbacks

C28_RunningCallbackStaysOpen ==
    \A i \in 1..Len(stack) : stack[i].cb \notin closedCallbacks

\* The step is a trampoline invocation that found no visitor armed.
NoVisitorStep ==
    /\ Len(stack') = Len(stack)
    /\ stack # <<>>
    /\ Len(stack'[Len(stack)].delivered) = Len(Top.delivered) + 1
    /\ stack'[Len(stack)].delivered[Len(Top.delivered) + 1].to = NONE

\* C29: a trampoline invocation that finds no visitor armed returns the
\* native code it returns for a visitor result of Continue, the native
\* traversal goes on to the next sibling, and nothing is added to the
\* collection.
C29_NoVisitorContinues ==
    [][NoVisitorStep =>
         /\ lastVisit'.code = TrampolineCode(Continue)
         /\ lastVisit'.effect = "next"
         /\ arrays' = arrays
         /\ collectedCursorBuffers' = collectedCursorBuffers]_vars

\* ------------------------------------------------- windows into a block

\* The positions of the block that lie outside the window.
Outside(window) ==
    {i \in 1..Len(window.buffer) :
        i <= window.byteOffset \/ i > window.byteOffset + window.byteLength}

\* C26: a decoder returns for a window into a larger block what it returns
\* for a standalone copy of the window's bytes, and setPointer stores the
\* pointer in the window and changes no byte outside it.
C26_DecodersReadTheirWindow ==
    /\ lastCodec.op \in {"parseCursorBuffer", "parseCXTypeFromUint8Array", "getPointer"} =>
         lastCodec.output.value = lastCodec.output.copy
    /\ lastCodec.op = "setPointer" =>
         /\ \A i \in Outside(lastCodec.input) :
              lastCodec.output.buffer[i] = lastCodec.input.buffer[i]
         /\ DataView(lastCodec.output.buffer, lastCodec.output.byteOffset,
                     lastCodec.output.byteLength) = lastCodec.buffer

\* ---------------------------------------------- unsigned stays unsigned

\* The FFI type of the unsigned integer type with the width a spelling names.
UnsignedOf(typeSpelling) ==
    CASE typeSpelling = "uint8_t" -> "u8"
      [] typeSpelling = "uint16_t" -> "u16"
      [] typeSpelling = "uint32_t" -> "u32"
      [] typeSpelling = "uint64_t" -> "u64"
      [] OTHER -> NONE

\* C27: typeKindToFFI gives "u8" for (SChar, "uint8_t"), "u16" for
\* (Short, "uint16_t"), "u32" for (Int, "uint32_t"), and for kind Elaborated
\* and for every kind of the default branch it gives "uN" for "uintN_t",
\* N being 8, 16, 32 or 64.
C27_UnsignedStaysUnsigned ==
    lastCodec.op = "typeKindToFFI" =>
        LET typeKind == lastCodec.input[1]
            typeSpelling == lastCodec.input[2]
        IN  (/\ UnsignedOf(typeSpelling) # NONE
             /\ \/ <<typeKind, typeSpelling>> \in
                     {<<"SChar", "uint8_t">>, <<"Short", "uint16_t">>,
                      <<"Int", "uint32_t">>}
                \/ typeKind \in {"Elaborated"} \cup DefaultKinds)
            => lastCodec.output.ffi = UnsignedOf(typeSpelling)

\* ---------------------------------------------------- load while loaded

\* C30: a load call made while the library is loaded makes no native open,
\* throws nothing and leaves the handle, the symbol table and the path the
\* library was opened from as they are, whatever path it is given.
C30_LoadWhileLoadedIsNoOp ==
    /\ [](lastCall.op = "load" /\ Loaded(lastCall.preLib, lastCall.preSym) =>
            /\ ~lastCall.threw
            /\ lastCall.events = <<>>
            /\ libclang = lastCall.preLib
            /\ symbols = lastCall.preSym)
    /\ [][lastCall'.op = "load" /\ Loaded(libclang, symbols) =>
            /\ libclang' = libclang
            /\ symbols' = symbols
            /\ nativeLog' = nativeLog
            /\ loadedPath' = loadedPath]_vars

\* A load with another path than the one the library was opened from has
\* returned.
C30_Witness ==
    /\ lastCall.op = "load"
    /\ Loaded(lastCall.preLib, lastCall.preSym)
    /\ lastCall.arg[1] = "/usr/lib/llvm-20/lib/libclang.so"
    /\ loadedPath = "/usr/lib/libclang.so"
    /\ ~lastCall.threw
    /\ libclang = lastCall.preLib

====
